---- MODULE Spec2Model ----
(***************************************************************************)
(* RUNSTR-DVM: the bounded, deduplicated collections of NostrDVM           *)
(* (src/src/nostr/nostrDVM.js), the subscription callbacks that fill them  *)
(* and the query handlers that read them back.                             *)
(*                                                                         *)
(* JavaScript values are represented as follows.                           *)
(*   - an object is a record; a property the object lacks is a field       *)
(*     outside the record's DOMAIN (event.tags === undefined is            *)
(*     "tags" \notin DOMAIN event);                                        *)
(*   - a stored property that may be undefined is held as <<>> (absent)    *)
(*     or <<v>> (present);                                                 *)
(*   - a pubkey string is the sequence of its characters, so that          *)
(*     substring(0, 8) is computed and not assumed;                        *)
(*   - null is the string Null.                                            *)
(***************************************************************************)
EXTENDS Integers, Sequences, FiniteSets, TLC

VARIABLES
    runningNotesFeed,   \* this.runningNotesFeed   (nostrDVM.js:41)
    exerciseTemplates,  \* this.exerciseTemplates  (nostrDVM.js:43)
    workoutTemplates,   \* this.workoutTemplates   (nostrDVM.js:44)
    workoutRecords,     \* this.workoutRecords     (nostrDVM.js:45)
    pending,            \* <<>>, or <<request, outcome>>: the request of a
                        \* direct call, and the value its handler has
                        \* returned (or the error thrown) and the caller's
                        \* continuation has not yet sent
    delivered,          \* history: <<id>> when the latest step was a
                        \* subscription callback, called with message id;
                        \* <<>> otherwise
    feedLog,            \* history: ids in the order they were inserted into
    exerciseLog,        \*   each collection (not program state; arrival
    workoutLog,         \*   order and eviction are stated against it)
    recordLog,
    handling,           \* <<>> or <<r>>: the task request handleTaskRequest
                        \* is answering and the resultContent it has built
    published,          \* <<e>> while publishTaskResult awaits
                        \* relay.publish(e); <<>> otherwise
    noteParts,          \* the phrases a note given to the parser is made of
    noteParams,         \* the params runningNotesTask is called with
    extracted,          \* <<>>, or <<r>>: what runningNotesTask came to
    summaryParams,      \* the params activitySummaryTask is called with
    summarized,         \* <<>>, or <<r>>: what activitySummaryTask came to
    startAt,            \* start(): 0 before the call, i while it awaits
                        \* relay.connect() of the i-th configured relay,
                        \* NumRelays + 1 once it has returned
    relayStatus,        \* of each configured relay: "closed", "open" once
                        \* connect() has resolved, "failed" once rejected
    connectListeners,   \* the relays start() has called relay.on('connect')
                        \* on
    connectedRelays,    \* this.connectedRelays   (nostrDVM.js:10)
    subscriptions,      \* of each relay: the subscriptions made on it
    publishAt,          \* publishTaskList: k while it awaits
                        \* relay.publish of this.connectedRelays[k], else 0
    taskListSent,       \* the relays relay.publish(taskListEvent) was
                        \* called on
    calls,              \* the calls of handleTaskRequest that have not
                        \* returned, each with its event, its relay and
                        \* the await it stands at; a bag
    outbox,             \* history: of each relay, the result events
                        \* relay.publish was called with; a bag
    received            \* history: how often each relay has delivered
                        \* each task request

stores == <<runningNotesFeed, exerciseTemplates, workoutTemplates, workoutRecords>>
logs == <<feedLog, exerciseLog, workoutLog, recordLog>>
parserVars == <<noteParts, noteParams, extracted>>
summaryVars == <<summaryParams, summarized>>
requestVars == <<calls, outbox, received>>
startVars == <<startAt, relayStatus, connectListeners, connectedRelays,
               subscriptions, publishAt, taskListSent>>
vars == <<runningNotesFeed, exerciseTemplates, workoutTemplates, workoutRecords,
          pending, delivered, feedLog, exerciseLog, workoutLog, recordLog,
          handling, published, noteParts, noteParams, extracted,
          summaryParams, summarized,
          startAt, relayStatus, connectListeners, connectedRelays,
          subscriptions, publishAt, taskListSent,
          calls, outbox, received>>

----------------------------------------------------------------------------
(* Sizes.  The code sets the three capacities to 100; every handler is     *)
(* written against the field, not the number, so the model runs them at a  *)
(* capacity small enough for the collections to overflow.                  *)

maxFeedSize == 2
maxTemplatesSize == 1
maxRecordsSize == 2

\* No more than this many insertions are logged for any one collection.
MaxInserts == 3

\* The number of relays configured (NOSTR_RELAYS, split at the commas).
NumRelays == 3

\* No note given to the parser has more phrases than this.
MaxPhrases == 3

\* No list given to the aggregator has more activities than this.
MaxActivities == 3

\* The relays deliver no more task requests than this, all relays together.
MaxDeliveries == 3

\* Number.MAX_SAFE_INTEGER, as far as 32-bit model integers go: it is above
\* every created_at of the model, which is all the handlers use it for.
MAX_SAFE_INTEGER == 2147483647

DefaultLimit == 20

KindNote == 1
KindExerciseTemplate == 33401
KindWorkoutTemplate == 33402
KindWorkoutRecord == 1301

KindTaskRequest == 23194
KindTaskResult == 23195

Null == "null"

\* {}: an object without properties
NoParams == [x \in {} |-> 0]

----------------------------------------------------------------------------
(* Sequence helpers: the Array methods the handlers use.                   *)

Min(S) == CHOOSE x \in S : \A y \in S : x <= y

\* Array.prototype.some over the id property
SomeId(s, id) == \E i \in 1..Len(s) : s[i].id = id

\* push in place of unshift: the new record goes to the end
Unshift_Push(s, x) == Append(s, x)

\* Array.prototype.unshift
Unshift(s, x) == <<x>> \o s

\* slice(-n) in place of slice(0, n): the tail is kept, the head dropped
Slice0_Tail(s, n) ==
    IF n >= 0
    THEN SubSeq(s, IF n < Len(s) THEN Len(s) - n + 1 ELSE 1, Len(s))
    ELSE SubSeq(s, 1, IF Len(s) + n > 0 THEN Len(s) + n ELSE 0)

\* Array.prototype.slice(0, n): a negative n counts from the end
Slice0(s, n) ==
    IF n >= 0
    THEN SubSeq(s, 1, IF n < Len(s) THEN n ELSE Len(s))
    ELSE SubSeq(s, 1, IF Len(s) + n > 0 THEN Len(s) + n ELSE 0)

\* String.prototype.substring(0, n) for n >= 0
Substring0(str, n) == SubSeq(str, 1, IF n < Len(str) THEN n ELSE Len(str))

\* the sort left out
SortByCreatedAtDesc_Unsorted(s) == s

\* Array.prototype.sort((a, b) => b.created_at - a.created_at): the sort is
\* stable, so records of equal created_at keep their relative order.
RECURSIVE SortByCreatedAtDesc(_)
SortByCreatedAtDesc(s) ==
    IF Len(s) <= 1 THEN s
    ELSE LET rest == SortByCreatedAtDesc(SubSeq(s, 1, Len(s) - 1))
             x == s[Len(s)]
             \* x goes after every record that is not older than it
             before == {i \in 1..Len(rest) : rest[i].created_at < x.created_at}
             k == IF before = {} THEN Len(rest) + 1 ELSE Min(before)
         IN SubSeq(rest, 1, k - 1) \o <<x>> \o SubSeq(rest, k, Len(rest))

----------------------------------------------------------------------------
(* Text.  Where a text is taken apart (by parseInt, by a regular           *)
(* expression) it is held as the sequence of its characters, '' as <<>>.   *)

UpperCase == <<"A", "B", "C", "D", "E", "F", "G", "H", "I", "J", "K", "L", "M", "N", "O", "P", "Q", "R", "S", "T", "U", "V", "W", "X", "Y", "Z">>
LowerCase == <<"a", "b", "c", "d", "e", "f", "g", "h", "i", "j", "k", "l", "m", "n", "o", "p", "q", "r", "s", "t", "u", "v", "w", "x", "y", "z">>
DigitChars == <<"0", "1", "2", "3", "4", "5", "6", "7", "8", "9">>

\* the lower-case letter of each upper-case letter, the set of digits and
\* the value of each digit
LowerOf ==
    [c \in {UpperCase[k] : k \in 1..Len(UpperCase)} |->
        LowerCase[CHOOSE k \in 1..Len(UpperCase) : UpperCase[k] = c]]

Digits == {DigitChars[k] : k \in 1..Len(DigitChars)}

DigitValueOf == [c \in Digits |-> (CHOOSE k \in 1..Len(DigitChars) : DigitChars[k] = c) - 1]

\* the i flag and String.prototype.toLowerCase
LowerChar(c) == IF c \in DOMAIN LowerOf THEN LowerOf[c] ELSE c

ToLowerCase(s) == [k \in 1..Len(s) |-> LowerChar(s[k])]

\* String.prototype.startsWith
StartsWith(s, prefix) == Len(prefix) <= Len(s) /\ SubSeq(s, 1, Len(prefix)) = prefix

\* \d and \s
IsDigit(c) == c \in Digits
IsSpace(c) == c \in {" ", "\t", "\n", "\r"}

DigitValue(c) == DigitValueOf[c]

\* parseInt of a run of digits
RECURSIVE ParseInt(_)
ParseInt(ds) ==
    IF ds = <<>> THEN 0
    ELSE 10 * ParseInt(SubSeq(ds, 1, Len(ds) - 1)) + DigitValue(ds[Len(ds)])

\* parseFloat of digits with an optional fraction: the value is num / den
ParseFloat(s) ==
    LET dots == {k \in 1..Len(s) : s[k] = "."}
    IN IF dots = {} THEN [num |-> ParseInt(s), den |-> 1]
       ELSE LET dot == Min(dots)
            IN [num |-> ParseInt(SubSeq(s, 1, dot - 1) \o SubSeq(s, dot + 1, Len(s))),
                den |-> 10 ^ (Len(s) - dot)]

\* Number.prototype.toString of a natural number
RECURSIVE NumberToString(_)
NumberToString(n) ==
    IF n < 10 THEN <<DigitChars[n + 1]>>
    ELSE NumberToString(n \div 10) \o <<DigitChars[(n % 10) + 1]>>

\* String.prototype.padStart(2, '0')
PadStart2(s) ==
    IF Len(s) = 0 THEN <<"0", "0">> ELSE IF Len(s) = 1 THEN <<"0">> \o s ELSE s

----------------------------------------------------------------------------
(* Tag access.                                                             *)

\* event.tags.find(t => t[0] === label)?.[1] || dflt
TagValue(tags, label, dflt) ==
    LET hits == {i \in 1..Len(tags) : Len(tags[i]) >= 1 /\ tags[i][1] = label}
    IN IF hits = {} THEN dflt
       ELSE LET t == tags[Min(hits)]
            IN IF Len(t) >= 2 /\ t[2] # "" THEN t[2] ELSE dflt

\* event.tags.find(t => t[0] === label)?.[1] || '' for a value that is held
\* as its characters
TagText(tags, label) ==
    LET hits == {i \in 1..Len(tags) : Len(tags[i]) >= 1 /\ tags[i][1] = label}
    IN IF hits = {} THEN <<>>
       ELSE LET t == tags[Min(hits)]
            IN IF Len(t) >= 2 THEN t[2] ELSE <<>>

\* event.tags.find(t => t[0] === label)?.slice(1) || []
TagRest(tags, label) ==
    LET hits == {i \in 1..Len(tags) : Len(tags[i]) >= 1 /\ tags[i][1] = label}
    IN IF hits = {} THEN <<>>
       ELSE SubSeq(tags[Min(hits)], 2, Len(tags[Min(hits)]))

\* event.tags.filter(t => t[0] === label).map(t => t.slice(1))
TagRests(tags, label) ==
    LET Is(t) == Len(t) >= 1 /\ t[1] = label
        ts == SelectSeq(tags, Is)
    IN [i \in 1..Len(ts) |-> SubSeq(ts[i], 2, Len(ts[i]))]

\* t[k] of a tag (k counted from 0), undefined beyond its end
TagAt(t, k) == IF Len(t) >= k + 1 THEN t[k + 1] ELSE "undefined"

\* event.tags.filter(t => t[0] === 'split').map(t => ({ number: t[1], ... }))
Splits(tags) ==
    LET IsSplit(t) == Len(t) >= 1 /\ t[1] = "split"
        ts == SelectSeq(tags, IsSplit)
    IN [i \in 1..Len(ts) |->
          [number |-> TagAt(ts[i], 1),
           distance |-> TagAt(ts[i], 2),
           unit |-> TagAt(ts[i], 3),
           time |-> TagAt(ts[i], 4),
           heart_rate |-> IF TagAt(ts[i], 5) = "bpm" THEN Null ELSE TagAt(ts[i], 5),
           heart_rate_unit |-> IF TagAt(ts[i], 6) = "bpm" THEN TagAt(ts[i], 6) ELSE Null]]

\* start ? parseInt(start) : null.  A number that may be null is held as
\* <<n>>, null as <<>>.
TimeOfTag(text) == IF text # <<>> THEN <<ParseInt(text)>> ELSE <<>>

\* the duration is taken from the end tag alone
DurationOf_FromEnd(start, end) ==
    IF end # <<>> THEN <<ParseInt(end)>> ELSE <<>>

\* (start && end) ? (parseInt(end) - parseInt(start)) : null
DurationOf(start, end) ==
    IF start # <<>> /\ end # <<>> THEN <<ParseInt(end) - ParseInt(start)>> ELSE <<>>

\* event.tags.find(t => t[0] === 'completed')?.[1] === 'true'
TagCompleted(tags) ==
    LET hits == {i \in 1..Len(tags) : Len(tags[i]) >= 1 /\ tags[i][1] = "completed"}
    IN hits # {} /\ Len(tags[Min(hits)]) >= 2 /\ tags[Min(hits)][2] = "true"

\* event.tags.filter(t => t[0] === 't').map(t => t[1]); a 't' tag without a
\* value contributes undefined, held as Null's sibling "undefined"
Hashtags(tags) ==
    LET IsT(t) == Len(t) >= 1 /\ t[1] = "t"
        Val(t) == IF Len(t) >= 2 THEN t[2] ELSE "undefined"
        ts == SelectSeq(tags, IsT)
    IN [i \in 1..Len(ts) |-> Val(ts[i])]

\* a property that may be undefined
Prop(obj, f) == IF f \in DOMAIN obj THEN <<obj[f]>> ELSE <<>>

----------------------------------------------------------------------------
(* The messages the relays deliver.  An id is the hash of the message, so  *)
(* an id stands for one message: its kind, author, creation time, tags and *)
(* content.  created_at is a Unix time in seconds, never negative.  The    *)
(* handlers do not check a message, so the relays may also hand over one   *)
(* that lacks a property.                                                  *)

PubkeyA == <<1, 2, 3, 4, 5, 6, 7, 8, 9, 10>>
PubkeyB == <<11, 12, 13>>

Events == <<
    [id |-> 1, kind |-> KindWorkoutRecord, pubkey |-> PubkeyA, created_at |-> 2,
     content |-> "tempo",
     tags |-> << <<"title", "Tempo run">>, <<"completed", "true">>, <<"t", "running">>,
                 <<"start", <<"1", "0", "0">>>>, <<"end", <<"1", "6", "0">>>>,
                 <<"exercise", "run", "5k">>, <<"weather_condition", "sunny">> >>],
    [id |-> 2, kind |-> KindWorkoutRecord, pubkey |-> PubkeyB, created_at |-> 1,
     content |-> "easy",
     tags |-> << <<"completed", "false">>, <<"t", "runstr">>, <<"t", "Running">>,
                 <<"start", <<"2", "0", "0">>>>,
                 <<"split", "1", "1", "km", "5:00", "150", "bpm">> >>],
    [id |-> 3, kind |-> KindWorkoutRecord, pubkey |-> PubkeyA, created_at |-> 3,
     content |-> "long", tags |-> << <<"title">>, <<"completed", "TRUE">> >>],
    [id |-> 4, kind |-> KindExerciseTemplate, pubkey |-> PubkeyA, created_at |-> 2,
     content |-> "strides",
     tags |-> << <<"d", "strides">>, <<"title", "Strides">>, <<"difficulty", "easy">>,
                 <<"format", "duration", "distance">>, <<"equipment", "track">> >>],
    [id |-> 5, kind |-> KindExerciseTemplate, pubkey |-> PubkeyB, created_at |-> 3,
     content |-> "hills", tags |-> << <<"t", "running">> >>],
    [id |-> 6, kind |-> KindWorkoutTemplate, pubkey |-> PubkeyA, created_at |-> 1,
     content |-> "drills", tags |-> << >>],
    [id |-> 7, kind |-> KindWorkoutTemplate, pubkey |-> PubkeyB, created_at |-> 3,
     content |-> "5k plan",
     tags |-> << <<"title", "5k plan">>, <<"duration", "1800">> >>],
    [id |-> 8, kind |-> KindNote, pubkey |-> PubkeyA, created_at |-> 1,
     content |-> "Ran 5km", tags |-> << <<"t", "runstr">> >>],
    \* a record without an author key, and a template without a tag list
    [id |-> 9, kind |-> KindWorkoutRecord, created_at |-> 3,
     content |-> "anonymous", tags |-> << <<"completed", "true">> >>],
    [id |-> 10, kind |-> KindExerciseTemplate, pubkey |-> PubkeyB, created_at |-> 1,
     content |-> "untagged"]
>>

EventSet == {Events[i] : i \in 1..Len(Events)}

\* the kinds the two subscriptions ask the relay for
NoteEvents == {e \in EventSet : e.kind = KindNote}
WorkoutEvents ==
    {e \in EventSet :
        e.kind \in {KindExerciseTemplate, KindWorkoutTemplate, KindWorkoutRecord}}

----------------------------------------------------------------------------
(* Ingestion.                                                              *)

\* the duplicate check left out
AlreadySeen_Never(coll, event) == FALSE

\* this.<collection>.some(x => x.id === event.id)
AlreadySeen(coll, event) == SomeId(coll, event.id)

\* the size test off by one: the collection is cut one record too late
LimitSize_OffByOne(coll, max) == IF Len(coll) > max + 1 THEN Slice0(coll, max) ELSE coll

\* if (coll.length > max) coll = coll.slice(0, max)
LimitSize(coll, max) == IF Len(coll) > max THEN Slice0(coll, max) ELSE coll

\* the note object addNoteToFeed builds
NoteWithMetadata(event, eventType) ==
    [id |-> event.id,
     pubkey |-> event.pubkey,
     author |-> [pubkey |-> event.pubkey, name |-> Substring0(event.pubkey, 8)],
     content |-> event.content,
     hashtags |-> Hashtags(event.tags),
     created_at |-> event.created_at,
     relay |-> "unknown",
     kind |-> event.kind,
     eventType |-> eventType]

\* event.pubkey.substring and event.tags.filter raise a TypeError on an
\* undefined receiver
NoteThrows(event) == "pubkey" \notin DOMAIN event \/ "tags" \notin DOMAIN event

\* a duplicate is not skipped but moved to the head of the feed
addNoteToFeed_MoveToFront(feed, event, eventType) ==
    LET Other(note) == note.id # event.id
    IN IF NoteThrows(event) THEN feed
       ELSE LimitSize(Unshift(SelectSeq(feed, Other), NoteWithMetadata(event, eventType)),
                      maxFeedSize)

\* addNoteToFeed: the new value of this.runningNotesFeed.  The body is one
\* try block whose catch only logs.
addNoteToFeed(feed, event, eventType) ==
    IF AlreadySeen(feed, event) THEN feed
    ELSE IF NoteThrows(event) THEN feed
    ELSE LimitSize(Unshift(feed, NoteWithMetadata(event, eventType)), maxFeedSize)

\* the template object addExerciseTemplate builds
ExerciseTemplateOf(event) ==
    [id |-> event.id,
     kind |-> event.kind,
     pubkey |-> Prop(event, "pubkey"),
     created_at |-> event.created_at,
     d_tag |-> TagValue(event.tags, "d", ""),
     title |-> TagValue(event.tags, "title", "Untitled Exercise"),
     description |-> event.content,
     format |-> TagRests(event.tags, "format"),
     format_units |-> TagRests(event.tags, "format_units"),
     equipment |-> TagRests(event.tags, "equipment"),
     difficulty |-> TagValue(event.tags, "difficulty", ""),
     hashtags |-> Hashtags(event.tags),
     raw_event |-> event]

\* the template object addWorkoutTemplate builds
WorkoutTemplateOf(event) ==
    [id |-> event.id,
     kind |-> event.kind,
     pubkey |-> Prop(event, "pubkey"),
     created_at |-> event.created_at,
     d_tag |-> TagValue(event.tags, "d", ""),
     title |-> TagValue(event.tags, "title", "Untitled Workout"),
     description |-> event.content,
     exercises |-> TagRests(event.tags, "exercise"),
     duration |-> TagValue(event.tags, "duration", ""),
     difficulty |-> TagValue(event.tags, "difficulty", ""),
     hashtags |-> Hashtags(event.tags),
     raw_event |-> event]

\* the record object addWorkoutRecord builds
WorkoutRecordOf(event) ==
    [id |-> event.id,
     kind |-> event.kind,
     pubkey |-> Prop(event, "pubkey"),
     created_at |-> event.created_at,
     d_tag |-> TagValue(event.tags, "d", ""),
     title |-> TagValue(event.tags, "title", "Untitled Workout"),
     description |-> event.content,
     type |-> TagValue(event.tags, "type", ""),
     start |-> TimeOfTag(TagText(event.tags, "start")),
     end |-> TimeOfTag(TagText(event.tags, "end")),
     duration |-> DurationOf(TagText(event.tags, "start"), TagText(event.tags, "end")),
     exercises |-> TagRests(event.tags, "exercise"),
     heart_rate_avg |-> TagRest(event.tags, "heart_rate_avg"),
     cadence_avg |-> TagRest(event.tags, "cadence_avg"),
     weather |-> [temp |-> TagRest(event.tags, "weather_temp"),
                  humidity |-> TagRest(event.tags, "weather_humidity"),
                  condition |-> TagValue(event.tags, "weather_condition", "")],
     splits |-> Splits(event.tags),
     completed |-> TagCompleted(event.tags),
     hashtags |-> Hashtags(event.tags),
     raw_event |-> event]

\* The state the handlers work on, and the outcome of a handler that may
\* throw: the state it leaves and whether it threw.
State ==
    [runningNotesFeed |-> runningNotesFeed,
     exerciseTemplates |-> exerciseTemplates,
     workoutTemplates |-> workoutTemplates,
     workoutRecords |-> workoutRecords]

Returned(st) == [st |-> st, threw |-> FALSE]
Threw(st) == [st |-> st, threw |-> TRUE]

\* event.tags.find raises a TypeError when the message has no tag list
TagsThrow(event) == "tags" \notin DOMAIN event

addExerciseTemplate(st, event) ==
    IF AlreadySeen(st.exerciseTemplates, event) THEN Returned(st)
    ELSE IF TagsThrow(event) THEN Threw(st)
    ELSE LET st1 == [st EXCEPT !.exerciseTemplates =
                        LimitSize(Unshift(@, ExerciseTemplateOf(event)), maxTemplatesSize)]
         IN Returned([st1 EXCEPT !.runningNotesFeed =
                         addNoteToFeed(@, event, "Exercise Template")])

addWorkoutTemplate(st, event) ==
    IF AlreadySeen(st.workoutTemplates, event) THEN Returned(st)
    ELSE IF TagsThrow(event) THEN Threw(st)
    ELSE LET st1 == [st EXCEPT !.workoutTemplates =
                        LimitSize(Unshift(@, WorkoutTemplateOf(event)), maxTemplatesSize)]
         IN Returned([st1 EXCEPT !.runningNotesFeed =
                         addNoteToFeed(@, event, "Workout Template")])

\* a record that is already filed is moved to the head of its collection
addWorkoutRecord_Refiled(st, event) ==
    IF AlreadySeen(st.workoutRecords, event)
    THEN Returned([st EXCEPT !.workoutRecords =
                      Unshift(SelectSeq(@, LAMBDA r : r.id # event.id),
                              CHOOSE r \in {@[i] : i \in 1..Len(@)} : r.id = event.id)])
    ELSE IF TagsThrow(event) THEN Threw(st)
    ELSE LET st1 == [st EXCEPT !.workoutRecords =
                        LimitSize(Unshift(@, WorkoutRecordOf(event)), maxRecordsSize)]
         IN Returned([st1 EXCEPT !.runningNotesFeed =
                         addNoteToFeed(@, event, "Workout Record")])

addWorkoutRecord(st, event) ==
    IF AlreadySeen(st.workoutRecords, event) THEN Returned(st)
    ELSE IF TagsThrow(event) THEN Threw(st)
    ELSE LET st1 == [st EXCEPT !.workoutRecords =
                        LimitSize(Unshift(@, WorkoutRecordOf(event)), maxRecordsSize)]
         IN Returned([st1 EXCEPT !.runningNotesFeed =
                         addNoteToFeed(@, event, "Workout Record")])

\* the case of kind 33402 calls the handler of kind 33401
processWorkoutEvent_WrongCase(st, event) ==
    CASE event.kind = KindExerciseTemplate -> addExerciseTemplate(st, event).st
      [] event.kind = KindWorkoutTemplate -> addExerciseTemplate(st, event).st
      [] event.kind = KindWorkoutRecord -> addWorkoutRecord(st, event).st
      [] OTHER -> st

\* processWorkoutEvent: the switch on event.kind inside try/catch; the catch
\* only logs, and a kind without a case does nothing
processWorkoutEvent(st, event) ==
    CASE event.kind = KindExerciseTemplate -> addExerciseTemplate(st, event).st
      [] event.kind = KindWorkoutTemplate -> addWorkoutTemplate(st, event).st
      [] event.kind = KindWorkoutRecord -> addWorkoutRecord(st, event).st
      [] OTHER -> st

----------------------------------------------------------------------------
(* The regular expressions of runningNotes.js, matched against a text     *)
(* character by character, and the parser built on them.                   *)

\* \d+ and \s* from position i are greedy: the position after the longest
\* run.  What follows either in the patterns below is never a digit or a
\* space, so no shorter run can complete a match the longest does not.
DigitsEnd(t, i) ==
    CHOOSE j \in i..(Len(t) + 1) :
        /\ \A k \in i..(j - 1) : IsDigit(t[k])
        /\ j = Len(t) + 1 \/ ~IsDigit(t[j])

SpacesEnd(t, i) ==
    CHOOSE j \in i..(Len(t) + 1) :
        /\ \A k \in i..(j - 1) : IsSpace(t[k])
        /\ j = Len(t) + 1 \/ ~IsSpace(t[j])

\* a literal at position i, under the i flag
LitAt(t, i, lit) ==
    /\ i + Len(lit) - 1 <= Len(t)
    /\ \A k \in 1..Len(lit) : LowerChar(t[i + k - 1]) = lit[k]

\* (a|b|...) at position i with nothing required after it: the first
\* alternative that matches, 0 if none does
AltAt(t, i, alts) ==
    LET hits == {k \in 1..Len(alts) : LitAt(t, i, alts[k])}
    IN IF hits = {} THEN 0 ELSE Min(hits)

\* \d+(?:\.\d+)? from position i: the ends it can take, the greedy one first
NumberEnds(t, i) ==
    LET intEnd == DigitsEnd(t, i)
        fracEnd == IF intEnd <= Len(t) /\ t[intEnd] = "."
                   THEN DigitsEnd(t, intEnd + 1) ELSE intEnd
    IN IF intEnd = i THEN <<>>
       ELSE IF fracEnd > intEnd + 1 THEN <<fracEnd, intEnd>>
       ELSE <<intEnd>>

(* A match is [g, end]: g maps the number of each capture group that took  *)
(* part to the text it matched (group 0 is the whole match where the code  *)
(* reads it), end is the position after the match.  PATTERN(t, i) is the   *)
(* match of the pattern at position i, <<m>>, or <<>>.                     *)

DISTANCE_UNITS == <<<<"k", "m">>, <<"m", "i">>, <<"m", "i", "l", "e">>, <<"m", "i", "l", "e", "s">>, <<"k", "i", "l", "o", "m", "e", "t", "e", "r", "s">>>>

DISTANCE_REGEX(t, i) ==
    LET ends == NumberEnds(t, i)
        ok == {n \in 1..Len(ends) : AltAt(t, SpacesEnd(t, ends[n]), DISTANCE_UNITS) # 0}
    IN IF ok = {} THEN <<>>
       ELSE LET e == ends[Min(ok)]
                u == SpacesEnd(t, e)
                unit == DISTANCE_UNITS[AltAt(t, u, DISTANCE_UNITS)]
            IN <<[g |-> (1 :> SubSeq(t, i, e - 1))
                        @@ (2 :> SubSeq(t, u, u + Len(unit) - 1)),
                  end |-> u + Len(unit)]>>

TIME_HOURS == <<<<"h">>, <<"h", "r">>, <<"h", "r", "s">>, <<"h", "o", "u", "r">>, <<"h", "o", "u", "r", "s">>>>
TIME_MINUTES == <<<<"m">>, <<"m", "i", "n">>, <<"m", "i", "n", "s">>, <<"m", "i", "n", "u", "t", "e">>, <<"m", "i", "n", "u", "t", "e", "s">>>>
TIME_SECONDS == <<<<"s">>, <<"s", "e", "c">>, <<"s", "e", "c", "s">>, <<"s", "e", "c", "o", "n", "d">>, <<"s", "e", "c", "o", "n", "d", "s">>>>

\* the five alternatives are tried in the order they are written
TIME_REGEX(t, i) ==
    LET d1 == DigitsEnd(t, i)
        d2 == IF d1 <= Len(t) /\ t[d1] = ":" THEN DigitsEnd(t, d1 + 1) ELSE 0
        d3 == IF d2 > d1 + 1 /\ d2 <= Len(t) /\ t[d2] = ":"
              THEN DigitsEnd(t, d2 + 1) ELSE 0
        u == SpacesEnd(t, d1)
        h == AltAt(t, u, TIME_HOURS)
        m == AltAt(t, u, TIME_MINUTES)
        s == AltAt(t, u, TIME_SECONDS)
    IN IF d1 = i THEN <<>>
       ELSE IF d3 > d2 + 1 THEN
          <<[g |-> (1 :> SubSeq(t, i, d1 - 1)) @@ (2 :> SubSeq(t, d1 + 1, d2 - 1))
                   @@ (3 :> SubSeq(t, d2 + 1, d3 - 1)),
             end |-> d3]>>
       ELSE IF d2 > d1 + 1 THEN
          <<[g |-> (4 :> SubSeq(t, i, d1 - 1)) @@ (5 :> SubSeq(t, d1 + 1, d2 - 1)),
             end |-> d2]>>
       ELSE IF h # 0 THEN
          <<[g |-> (6 :> SubSeq(t, i, d1 - 1))
                   @@ (7 :> SubSeq(t, u, u + Len(TIME_HOURS[h]) - 1)),
             end |-> u + Len(TIME_HOURS[h])]>>
       ELSE IF m # 0 THEN
          <<[g |-> (8 :> SubSeq(t, i, d1 - 1))
                   @@ (9 :> SubSeq(t, u, u + Len(TIME_MINUTES[m]) - 1)),
             end |-> u + Len(TIME_MINUTES[m])]>>
       ELSE IF s # 0 THEN
          <<[g |-> (10 :> SubSeq(t, i, d1 - 1))
                   @@ (11 :> SubSeq(t, u, u + Len(TIME_SECONDS[s]) - 1)),
             end |-> u + Len(TIME_SECONDS[s])]>>
       ELSE <<>>

PACE_UNITS == <<<<"k", "m">>, <<"m", "i">>, <<"m", "i", "l", "e">>, <<"m", "i", "l", "e", "s">>, <<"k", "i", "l", "o", "m", "e", "t", "e", "r">>, <<"k", "i", "l", "o", "m", "e", "t", "e", "r", "s">>>>

PACE_REGEX(t, i) ==
    LET d1 == DigitsEnd(t, i)
        d2 == IF d1 <= Len(t) /\ t[d1] = ":" THEN DigitsEnd(t, d1 + 1) ELSE 0
        sp == SpacesEnd(t, d2)
        \* (?:\/|\s+per\s+): where the unit has to start, 0 if neither is there
        u == IF d2 <= Len(t) /\ t[d2] = "/" THEN d2 + 1
             ELSE IF sp > d2 /\ LitAt(t, sp, <<"p", "e", "r">>) /\ SpacesEnd(t, sp + 3) > sp + 3
             THEN SpacesEnd(t, sp + 3)
             ELSE 0
        k == IF u = 0 THEN 0 ELSE AltAt(t, u, PACE_UNITS)
    IN IF d1 = i \/ d2 <= d1 + 1 \/ k = 0 THEN <<>>
       ELSE <<[g |-> (1 :> SubSeq(t, i, d1 - 1)) @@ (2 :> SubSeq(t, d1 + 1, d2 - 1))
                     @@ (3 :> SubSeq(t, u, u + Len(PACE_UNITS[k]) - 1)),
               end |-> u + Len(PACE_UNITS[k])]>>

ELEVATION_UNITS == <<<<"m">>, <<"m", "e", "t", "e", "r", "s">>, <<"f", "t">>, <<"f", "e", "e", "t">>>>
ELEVATION_WORDS == <<<<"e", "l", "e", "v", "a", "t", "i", "o", "n">>, <<"e", "l", "e", "v">>, <<"c", "l", "i", "m", "b">>, <<"g", "a", "i", "n">>>>

\* The unit is followed by \s+ and a word, so the matcher moves on to the
\* next unit alternative, and then to the shorter number, when the rest
\* fails: the match is the first (number end, unit) that can be completed.
ELEVATION_REGEX(t, i) ==
    LET ends == NumberEnds(t, i)
        WordAt(e, k) ==
            LET u == SpacesEnd(t, e)
                a == u + Len(ELEVATION_UNITS[k])
            IN IF LitAt(t, u, ELEVATION_UNITS[k]) /\ SpacesEnd(t, a) > a
               THEN SpacesEnd(t, a) ELSE 0
        Completes(e, k) == WordAt(e, k) # 0 /\ AltAt(t, WordAt(e, k), ELEVATION_WORDS) # 0
        cands == {c \in (1..Len(ends)) \X (1..Len(ELEVATION_UNITS)) :
                     Completes(ends[c[1]], c[2])}
        first == CHOOSE c \in cands : \A c2 \in cands :
                     c[1] < c2[1] \/ (c[1] = c2[1] /\ c[2] <= c2[2])
    IN IF cands = {} THEN <<>>
       ELSE LET e == ends[first[1]]
                u == SpacesEnd(t, e)
                w == WordAt(e, first[2])
            IN <<[g |-> (1 :> SubSeq(t, i, e - 1))
                        @@ (2 :> SubSeq(t, u, u + Len(ELEVATION_UNITS[first[2]]) - 1)),
                  end |-> w + Len(ELEVATION_WORDS[AltAt(t, w, ELEVATION_WORDS)])]>>

HEART_RATE_REGEX(t, i) ==
    LET d1 == DigitsEnd(t, i)
        u == SpacesEnd(t, d1)
        g == (1 :> SubSeq(t, i, d1 - 1))
    IN IF d1 = i THEN <<>>
       ELSE IF LitAt(t, u, <<"b", "p", "m">>) THEN <<[g |-> g, end |-> u + 3]>>
       ELSE IF LitAt(t, u, <<"h", "r">>) THEN <<[g |-> g, end |-> u + 2]>>
       ELSE IF /\ LitAt(t, u, <<"h", "e", "a", "r", "t">>)
               /\ SpacesEnd(t, u + 5) > u + 5
               /\ LitAt(t, SpacesEnd(t, u + 5), <<"r", "a", "t", "e">>)
       THEN <<[g |-> g, end |-> SpacesEnd(t, u + 5) + 4]>>
       ELSE <<>>

WEATHER_WORDS ==
    <<<<"s", "u", "n", "n", "y">>, <<"c", "l", "o", "u", "d", "y">>, <<"r", "a", "i", "n", "y">>, <<"s", "n", "o", "w", "y">>, <<"w", "i", "n", "d", "y">>, <<"h", "o", "t">>, <<"c", "o", "l", "d">>, <<"w", "a", "r", "m">>, <<"c", "o", "o", "l">>, <<"h", "u", "m", "i", "d">>>>

MOOD_WORDS ==
    <<<<"g", "r", "e", "a", "t">>, <<"g", "o", "o", "d">>, <<"o", "k", "a", "y">>, <<"o", "k">>, <<"b", "a", "d">>, <<"t", "e", "r", "r", "i", "b", "l", "e">>, <<"a", "m", "a", "z", "i", "n", "g">>, <<"e", "x", "c", "e", "l", "l", "e", "n", "t">>,
      <<"d", "i", "f", "f", "i", "c", "u", "l", "t">>, <<"h", "a", "r", "d">>, <<"e", "a", "s", "y">>, <<"c", "h", "a", "l", "l", "e", "n", "g", "i", "n", "g">>, <<"t", "o", "u", "g", "h">>, <<"s", "t", "r", "u", "g", "g", "l", "e", "d">>>>

\* WEATHER_REGEX and MOOD_REGEX: one word of the list
WORD_REGEX(t, i, words) ==
    LET k == AltAt(t, i, words)
    IN IF k = 0 THEN <<>>
       ELSE <<[g |-> (0 :> SubSeq(t, i, i + Len(words[k]) - 1)),
               end |-> i + Len(words[k])]>>

\* String.prototype.match without the g flag: the leftmost match
distanceMatch(content) ==
    LET starts == {i \in 1..Len(content) : DISTANCE_REGEX(content, i) # <<>>}
    IN IF starts = {} THEN <<>>
       ELSE [i \in starts |-> DISTANCE_REGEX(content, i)][Min(starts)]

paceMatch(content) ==
    LET starts == {i \in 1..Len(content) : PACE_REGEX(content, i) # <<>>}
    IN IF starts = {} THEN <<>>
       ELSE [i \in starts |-> PACE_REGEX(content, i)][Min(starts)]

elevationMatch(content) ==
    LET starts == {i \in 1..Len(content) : ELEVATION_REGEX(content, i) # <<>>}
    IN IF starts = {} THEN <<>>
       ELSE [i \in starts |-> ELEVATION_REGEX(content, i)][Min(starts)]

heartRateMatch(content) ==
    LET starts == {i \in 1..Len(content) : HEART_RATE_REGEX(content, i) # <<>>}
    IN IF starts = {} THEN <<>>
       ELSE [i \in starts |-> HEART_RATE_REGEX(content, i)][Min(starts)]

\* only the first match of the time pattern is taken
timeMatches_FirstOnly(content, from) ==
    LET starts == {i \in from..Len(content) : TIME_REGEX(content, i) # <<>>}
    IN IF starts = {} THEN <<>>
       ELSE [i \in starts |-> TIME_REGEX(content, i)][Min(starts)]

\* String.prototype.matchAll: the leftmost match from `from`, then the
\* matches from its end on
RECURSIVE timeMatches(_, _)
timeMatches(content, from) ==
    LET starts == {i \in from..Len(content) : TIME_REGEX(content, i) # <<>>}
    IN IF starts = {} THEN <<>>
       ELSE [i \in starts |->
               TIME_REGEX(content, i)
               \o timeMatches(content, TIME_REGEX(content, i)[1].end)][Min(starts)]

RECURSIVE wordMatches(_, _, _)
wordMatches(content, from, words) ==
    LET starts == {i \in from..Len(content) : WORD_REGEX(content, i, words) # <<>>}
    IN IF starts = {} THEN <<>>
       ELSE [i \in starts |->
               WORD_REGEX(content, i, words)
               \o wordMatches(content, WORD_REGEX(content, i, words)[1].end, words)][Min(starts)]

weatherMatches(content) == wordMatches(content, 1, WEATHER_WORDS)
moodMatches(content) == wordMatches(content, 1, MOOD_WORDS)

----------------------------------------------------------------------------
(* runningNotesTask.  What a handler comes to is [ok |-> TRUE, result] when*)
(* it returns and [ok |-> FALSE, error] when it throws.                    *)

Result(value) == [ok |-> TRUE, result |-> value]
Thrown(message) == [ok |-> FALSE, error |-> message]

\* the seconds one match of the time pattern adds to totalSeconds
MatchSeconds(match) ==
    LET Has(k) == k \in DOMAIN match.g
        IntOf(k) == ParseInt(match.g[k])
    IN IF Has(1) /\ Has(2) /\ Has(3) THEN IntOf(1) * 3600 + IntOf(2) * 60 + IntOf(3)
       ELSE IF Has(4) /\ Has(5) THEN IntOf(4) * 60 + IntOf(5)
       ELSE IF Has(6) /\ Has(7) /\ StartsWith(ToLowerCase(match.g[7]), <<"h">>) THEN IntOf(6) * 3600
       ELSE IF Has(8) /\ Has(9) /\ StartsWith(ToLowerCase(match.g[9]), <<"m">>) THEN IntOf(8) * 60
       ELSE IF Has(10) /\ Has(11) /\ StartsWith(ToLowerCase(match.g[11]), <<"s">>) THEN IntOf(10)
       ELSE 0

\* the sum over the first n matches
RECURSIVE SecondsOf(_, _)
SecondsOf(matches, n) ==
    IF n = 0 THEN 0 ELSE SecondsOf(matches, n - 1) + MatchSeconds(matches[n])

\* for (const match of timeMatches) totalSeconds += ...
TotalSeconds(matches) == SecondsOf(matches, Len(matches))

\* result.extractedData.time
TimeOf(totalSeconds) ==
    LET hours == totalSeconds \div 3600
        minutes == (totalSeconds % 3600) \div 60
        seconds == totalSeconds % 60
    IN [hours |-> hours, minutes |-> minutes, seconds |-> seconds,
        totalSeconds |-> totalSeconds,
        formatted |-> PadStart2(NumberToString(hours)) \o <<":">> \o PadStart2(NumberToString(minutes))
                      \o <<":">> \o PadStart2(NumberToString(seconds))]

\* result.extractedData.pace
PaceOf(match) ==
    LET unit == IF StartsWith(ToLowerCase(match.g[3]), <<"k", "m">>) THEN <<"k", "m">> ELSE <<"m", "i">>
    IN [minutes |-> ParseInt(match.g[1]), seconds |-> ParseInt(match.g[2]),
        unit |-> unit,
        formatted |-> match.g[1] \o <<":">> \o PadStart2(match.g[2]) \o <<"/">> \o unit]

\* result.extractedData.calculatedPace.  paceInSeconds is the quotient
\* totalSeconds * den / num; a division by 0 gives Infinity, or NaN for 0 / 0,
\* and then Infinity % 60 and NaN % 60 are NaN.
CalculatedPaceOf(time, distance) ==
    LET num == distance.value.num
        den == distance.value.den
        paceMinutes == (time.totalSeconds * den) \div (60 * num)
        paceSeconds == ((time.totalSeconds * den) \div num) % 60
    IN IF num # 0
       THEN [minutes |-> paceMinutes, seconds |-> paceSeconds, unit |-> distance.unit,
             formatted |-> NumberToString(paceMinutes) \o <<":">> \o PadStart2(NumberToString(paceSeconds))
                           \o <<"/">> \o distance.unit]
       ELSE IF time.totalSeconds # 0
       THEN [minutes |-> "Infinity", seconds |-> "NaN", unit |-> distance.unit,
             formatted |-> <<"I", "n", "f", "i", "n", "i", "t", "y", ":", "N", "a", "N", "/">> \o distance.unit]
       ELSE [minutes |-> "NaN", seconds |-> "NaN", unit |-> distance.unit,
             formatted |-> <<"N", "a", "N", ":", "N", "a", "N", "/">> \o distance.unit]

\* the derived pace computed whether or not the text states a pace
Derived_Always(data) ==
    IF "distance" \in DOMAIN data /\ "time" \in DOMAIN data
    THEN [calculatedPace |-> CalculatedPaceOf(data.time, data.distance)]
    ELSE NoParams

\* lines 121-136: what the derived metrics add to the extracted data
Derived(data) ==
    IF "distance" \in DOMAIN data /\ "time" \in DOMAIN data /\ "pace" \notin DOMAIN data
    THEN [calculatedPace |-> CalculatedPaceOf(data.time, data.distance)]
    ELSE NoParams

\* result, built from the matches of the seven patterns
ResultOf(content, dm, tm, pm, em, hm, wm, mm) ==
    LET distance ==
           IF dm # <<>>
           THEN [distance |-> [value |-> ParseFloat(dm[1].g[1]),
                               unit |-> ToLowerCase(dm[1].g[2])]]
           ELSE NoParams
        time == IF Len(tm) > 0 THEN [time |-> TimeOf(TotalSeconds(tm))] ELSE NoParams
        pace == IF pm # <<>> THEN [pace |-> PaceOf(pm[1])] ELSE NoParams
        elevation ==
           IF em # <<>>
           THEN [elevation |->
                   [value |-> ParseFloat(em[1].g[1]),
                    unit |-> IF StartsWith(ToLowerCase(em[1].g[2]), <<"m">>)
                             THEN <<"m", "e", "t", "e", "r", "s">> ELSE <<"f", "e", "e", "t">>]]
           ELSE NoParams
        heartRate == IF hm # <<>> THEN [heartRate |-> ParseInt(hm[1].g[1])] ELSE NoParams
        weather ==
           IF Len(wm) > 0
           THEN [weather |-> [k \in 1..Len(wm) |-> ToLowerCase(wm[k].g[0])]]
           ELSE NoParams
        mood ==
           IF Len(mm) > 0
           THEN [mood |-> [k \in 1..Len(mm) |-> ToLowerCase(mm[k].g[0])]]
           ELSE NoParams
        data == distance @@ time @@ pace @@ elevation @@ heartRate @@ weather @@ mood
    IN [rawContent |-> content, extractedData |-> data @@ Derived(data)]

\* the result for a content: each pattern is matched against it once.  (The
\* result is the one member of the set of results.)
Extracted(content) ==
    CHOOSE result \in
        {ResultOf(content, dm, tm, pm, em, hm, wm, mm) :
            dm \in {distanceMatch(content)},
            tm \in {timeMatches(content, 1)},
            pm \in {paceMatch(content)},
            em \in {elevationMatch(content)},
            hm \in {heartRateMatch(content)},
            wm \in {weatherMatches(content)},
            mm \in {moodMatches(content)}} : TRUE

\* the empty string taken for a content like any other
runningNotesTask_EmptyParsed(params) ==
    IF "content" \notin DOMAIN params
    THEN Thrown(<<"No content provided to parse">>)
    ELSE Result(CHOOSE result \in {Extracted(content) : content \in {params.content}} : TRUE)

\* runningNotesTask
runningNotesTask(params) ==
    IF "content" \notin DOMAIN params \/ params.content = <<>>
    THEN Thrown(<<"No content provided to parse">>)
    ELSE Result(CHOOSE result \in {Extracted(content) : content \in {params.content}} : TRUE)

----------------------------------------------------------------------------
(* Queries.  params is the object the caller passes; a property it lacks   *)
(* takes the default of the destructuring pattern.                         *)

Default(params, f, dflt) == IF f \in DOMAIN params THEN params[f] ELSE dflt

\* the upper bound taken as exclusive
InWindow_ExclusiveUntil(r, since, until) == r.created_at >= since /\ r.created_at < until

\* note.created_at >= since && note.created_at <= until
InWindow(r, since, until) == r.created_at >= since /\ r.created_at <= until

\* include_workouts not looked at: nothing is filtered by kind
getRunningFeed_IgnoresFlag(st, params) ==
    LET limit == Default(params, "limit", DefaultLimit)
        since == Default(params, "since", 0)
        until == Default(params, "until", MAX_SAFE_INTEGER)
        Timely(note) == InWindow(note, since, until)
    IN [feed |-> Slice0(SelectSeq(st.runningNotesFeed, Timely), limit),
        total |-> Len(st.runningNotesFeed)]

getRunningFeed(st, params) ==
    LET limit == Default(params, "limit", DefaultLimit)
        since == Default(params, "since", 0)
        until == Default(params, "until", MAX_SAFE_INTEGER)
        include_workouts == Default(params, "include_workouts", TRUE)
        Timely(note) == InWindow(note, since, until)
        Plain(note) == note.kind = KindNote /\ note.eventType = Null
        byTime == SelectSeq(st.runningNotesFeed, Timely)
        byKind == IF ~include_workouts THEN SelectSeq(byTime, Plain) ELSE byTime
    IN [feed |-> Slice0(byKind, limit),
        total |-> Len(st.runningNotesFeed)]

\* the totals counted over the templates that passed the filters
getWorkoutTemplates_TotalOfListed(st, params) ==
    LET limit == Default(params, "limit", DefaultLimit)
        since == Default(params, "since", 0)
        until == Default(params, "until", MAX_SAFE_INTEGER)
        type == Default(params, "type", Null)
        Timely(t) == InWindow(t, since, until)
        IsExercise(t) == t.kind = KindExerciseTemplate
        IsWorkout(t) == t.kind = KindWorkoutTemplate
        byTime == SelectSeq(st.exerciseTemplates \o st.workoutTemplates, Timely)
        byType == IF type = "exercise" THEN SelectSeq(byTime, IsExercise)
                  ELSE IF type = "workout" THEN SelectSeq(byTime, IsWorkout)
                  ELSE byTime
    IN [templates |-> Slice0(SortByCreatedAtDesc(byType), limit),
        total |-> [exercise |-> Len(SelectSeq(byType, IsExercise)),
                   workout |-> Len(SelectSeq(byType, IsWorkout))]]

getWorkoutTemplates(st, params) ==
    LET limit == Default(params, "limit", DefaultLimit)
        since == Default(params, "since", 0)
        until == Default(params, "until", MAX_SAFE_INTEGER)
        type == Default(params, "type", Null)
        Timely(t) == InWindow(t, since, until)
        IsExercise(t) == t.kind = KindExerciseTemplate
        IsWorkout(t) == t.kind = KindWorkoutTemplate
        byTime == SelectSeq(st.exerciseTemplates \o st.workoutTemplates, Timely)
        byType == IF type = "exercise" THEN SelectSeq(byTime, IsExercise)
                  ELSE IF type = "workout" THEN SelectSeq(byTime, IsWorkout)
                  ELSE byTime
    IN [templates |-> Slice0(SortByCreatedAtDesc(byType), limit),
        total |-> [exercise |-> Len(st.exerciseTemplates),
                   workout |-> Len(st.workoutTemplates)]]

\* the limit applied first, to the collection, and the filters after it
getWorkoutRecords_LimitFirst(st, params) ==
    LET limit == Default(params, "limit", DefaultLimit)
        since == Default(params, "since", 0)
        until == Default(params, "until", MAX_SAFE_INTEGER)
        completed == Default(params, "completed", Null)
        Timely(r) == InWindow(r, since, until)
        Done(r) == r.completed = TRUE
        NotDone(r) == r.completed = FALSE
        byTime == SelectSeq(Slice0(st.workoutRecords, limit), Timely)
        byDone == IF completed = "true" THEN SelectSeq(byTime, Done)
                  ELSE IF completed = "false" THEN SelectSeq(byTime, NotDone)
                  ELSE byTime
    IN [records |-> SortByCreatedAtDesc(byDone),
        total |-> Len(st.workoutRecords)]

\* completed is null, true or false; held as Null, "true", "false"
getWorkoutRecords(st, params) ==
    LET limit == Default(params, "limit", DefaultLimit)
        since == Default(params, "since", 0)
        until == Default(params, "until", MAX_SAFE_INTEGER)
        completed == Default(params, "completed", Null)
        Timely(r) == InWindow(r, since, until)
        Done(r) == r.completed = TRUE
        NotDone(r) == r.completed = FALSE
        byTime == SelectSeq(st.workoutRecords, Timely)
        byDone == IF completed = "true" THEN SelectSeq(byTime, Done)
                  ELSE IF completed = "false" THEN SelectSeq(byTime, NotDone)
                  ELSE byTime
    IN [records |-> Slice0(SortByCreatedAtDesc(byDone), limit),
        total |-> Len(st.workoutRecords)]

----------------------------------------------------------------------------
(* activitySummary.js.  An activity is a record that may carry a timestamp *)
(* and extractedData, and extractedData a distance, a time, a pace and a   *)
(* calculatedPace, as runningNotesTask builds them.  A timestamp is the    *)
(* time value of its Date, counted in quarters of an hour from             *)
(* 2023-02-05T00:00Z.  The value a caller passes for activities is         *)
(* [array |-> <<...>>] when it is an array and [typeof |-> ...] when it is *)
(* any other value.  Numbers that may have a fraction are kept in          *)
(* millionths: products with 1.60934 and 0.621371 are exact, the rounding  *)
(* of doubles is not modelled.  A quotient is kept as [num, den], and      *)
(* null as <<>> beside <<v>>.                                              *)

\* 1.60934 and 0.621371, in millionths
MileInKm == 1609340
MilePaceFactor == 621371

IsArray(value) == "array" \in DOMAIN value

\* a.extractedData?.distance and the like: <<v>>, or <<>> for undefined
Datum(activity, f) ==
    IF "extractedData" \in DOMAIN activity /\ f \in DOMAIN activity.extractedData
    THEN <<activity.extractedData[f]>> ELSE <<>>

\* a.extractedData?.pace || a.extractedData?.calculatedPace
PaceDatum(activity) ==
    IF Datum(activity, "pace") # <<>> THEN Datum(activity, "pace")
    ELSE Datum(activity, "calculatedPace")

\* a.timestamp, when it is truthy
TimestampOf(activity) ==
    IF "timestamp" \in DOMAIN activity /\ activity.timestamp # 0
    THEN <<activity.timestamp>> ELSE <<>>

\* the value taken for km whatever the unit
DistanceInKm_AsStated(distance) == (distance.value.num * 1000000) \div distance.value.den

\* of the mile units, mi alone taken for one
DistanceInKm_MiOnly(distance) ==
    IF distance.unit = <<"m", "i">>
    THEN (distance.value.num * MileInKm) \div distance.value.den
    ELSE (distance.value.num * 1000000) \div distance.value.den

\* lines 77-81: distanceInKm, in millionths
DistanceInKm(distance) ==
    IF distance.unit \in {<<"m", "i">>, <<"m", "i", "l", "e">>, <<"m", "i", "l", "e", "s">>}
    THEN (distance.value.num * MileInKm) \div distance.value.den
    ELSE (distance.value.num * 1000000) \div distance.value.den

\* the pace of every unit taken for a pace per kilometre
PaceInSecondsPerKm_Unscaled(pace) == (pace.minutes * 60 + pace.seconds) * 1000000

\* lines 115-116: paceInSecondsPerKm, in millionths
PaceInSecondsPerKm(pace) ==
    (pace.minutes * 60 + pace.seconds)
        * (IF pace.unit \in {<<"m", "i">>, <<"m", "i", "l", "e">>} THEN MilePaceFactor ELSE 1000000)

\* the bounds of medium and long taken for strict ones
ActivityTypeOf_Strict(distanceInKm) ==
    IF distanceInKm > 10 * 1000000 THEN "long"
    ELSE IF distanceInKm > 5 * 1000000 THEN "medium"
    ELSE "short"

\* lines 91-98: the activity type of a distance, counted in activityTypes
ActivityTypeOf(distanceInKm) ==
    IF distanceInKm >= 10 * 1000000 THEN "long"
    ELSE IF distanceInKm >= 5 * 1000000 THEN "medium"
    ELSE "short"

Counted(activityTypes, activityType) ==
    (activityType :> (IF activityType \in DOMAIN activityTypes
                      THEN activityTypes[activityType] ELSE 0) + 1) @@ activityTypes

\* lines 61-70: the running values before the first activity; bestPace is
\* <<>> for Infinity
Scan0 ==
    [totalDistance |-> 0, totalDuration |-> 0, totalPace |-> 0, validPaceCount |-> 0,
     bestPace |-> <<>>, bestPaceActivity |-> <<>>,
     longestDistance |-> 0, longestDistanceActivity |-> <<>>,
     longestDuration |-> 0, longestDurationActivity |-> <<>>,
     activityTypes |-> NoParams]

\* lines 75-99: the distance of the activity at index
ScanDistance(acc, activity, index) ==
    IF Datum(activity, "distance") = <<>> THEN acc
    ELSE LET km == DistanceInKm(Datum(activity, "distance")[1])
             longer == km > acc.longestDistance
         IN [acc EXCEPT
               !.totalDistance = @ + km,
               !.longestDistance = IF longer THEN km ELSE @,
               !.longestDistanceActivity = IF longer THEN <<index>> ELSE @,
               !.activityTypes = Counted(@, ActivityTypeOf(km))]

\* lines 102-110: its duration
ScanDuration(acc, activity, index) ==
    IF Datum(activity, "time") = <<>> THEN acc
    ELSE LET duration == Datum(activity, "time")[1].totalSeconds
             longer == duration > acc.longestDuration
         IN [acc EXCEPT
               !.totalDuration = @ + duration,
               !.longestDuration = IF longer THEN duration ELSE @,
               !.longestDurationActivity = IF longer THEN <<index>> ELSE @]

\* lines 113-125: its pace
ScanPace(acc, activity, index) ==
    IF PaceDatum(activity) = <<>> THEN acc
    ELSE LET perKm == PaceInSecondsPerKm(PaceDatum(activity)[1])
             better == acc.bestPace = <<>> \/ perKm < acc.bestPace[1]
         IN [acc EXCEPT
               !.totalPace = @ + perKm,
               !.validPaceCount = @ + 1,
               !.bestPace = IF better THEN <<perKm>> ELSE @,
               !.bestPaceActivity = IF better THEN <<index>> ELSE @]

\* one call of the callback of forEach
ScanActivity(acc, activity, index) ==
    CHOOSE after \in
        {ScanPace(c, activity, index) :
            c \in {ScanDuration(b, activity, index) :
                     b \in {ScanDistance(acc, activity, index)}}} : TRUE

\* lines 73-126: the running values after the first n activities
RECURSIVE Scan(_, _)
Scan(activities, n) ==
    IF n = 0 THEN Scan0
    ELSE CHOOSE after \in
            {ScanActivity(acc, activities[n], n - 1) :
                acc \in {Scan(activities, n - 1)}} : TRUE

\* lines 50-53, without the sort: the truthy timestamps of the activities
RECURSIVE Timestamps(_)
Timestamps(activities) ==
    IF activities = <<>> THEN <<>>
    ELSE TimestampOf(Head(activities)) \o Timestamps(Tail(activities))

RECURSIVE MinOf(_)
MinOf(s) == IF Len(s) = 1 THEN s[1]
            ELSE IF s[1] <= MinOf(Tail(s)) THEN s[1] ELSE MinOf(Tail(s))

RECURSIVE MaxOf(_)
MaxOf(s) == IF Len(s) = 1 THEN s[1]
            ELSE IF s[1] >= MaxOf(Tail(s)) THEN s[1] ELSE MaxOf(Tail(s))

\* lines 55-58: the first and the last of the sorted timestamps.  (The
\* rendering of toISOString is not modelled: a period holds time values.)
PeriodOf(timestamps) ==
    IF Len(timestamps) > 0
    THEN [start |-> <<MinOf(timestamps)>>, end |-> <<MaxOf(timestamps)>>]
    ELSE [start |-> <<>>, end |-> <<>>]

\* lines 212-221: the activities with a pace and a timestamp, as
\* [timestamp, paceInSeconds], in the order of the list
RECURSIVE ActivitiesWithPace(_)
ActivitiesWithPace(activities) ==
    IF activities = <<>> THEN <<>>
    ELSE LET a == Head(activities)
         IN (IF PaceDatum(a) # <<>> /\ TimestampOf(a) # <<>>
             THEN <<[timestamp |-> TimestampOf(a)[1],
                     paceInSeconds |-> PaceDatum(a)[1].minutes * 60 + PaceDatum(a)[1].seconds]>>
             ELSE <<>>) \o ActivitiesWithPace(Tail(activities))

\* a point put after the points of a sorted sequence that are not later
InsertPoint(point, sorted) ==
    LET k == Cardinality({i \in DOMAIN sorted : sorted[i].timestamp <= point.timestamp})
    IN SubSeq(sorted, 1, k) \o <<point>> \o SubSeq(sorted, k + 1, Len(sorted))

\* line 222: sort((a, b) => a.timestamp - b.timestamp), which is stable
RECURSIVE SortedByTimestamp(_)
SortedByTimestamp(points) ==
    IF points = <<>> THEN <<>>
    ELSE InsertPoint(points[Len(points)],
                     SortedByTimestamp(SubSeq(points, 1, Len(points) - 1)))

RECURSIVE SumTimestamps(_)
SumTimestamps(points) ==
    IF points = <<>> THEN 0 ELSE Head(points).timestamp + SumTimestamps(Tail(points))

RECURSIVE SumPaces(_)
SumPaces(points) ==
    IF points = <<>> THEN 0 ELSE Head(points).paceInSeconds + SumPaces(Tail(points))

\* lines 236-242: numerator and denominator of the slope, each n * n times
\* what the code computes (n * t - sumT is n times t - avgTimestamp)
RECURSIVE Numerator(_, _, _, _)
Numerator(points, n, sumT, sumP) ==
    IF points = <<>> THEN 0
    ELSE (n * Head(points).timestamp - sumT) * (n * Head(points).paceInSeconds - sumP)
         + Numerator(Tail(points), n, sumT, sumP)

RECURSIVE Denominator(_, _, _)
Denominator(points, n, sumT) ==
    IF points = <<>> THEN 0
    ELSE (n * Head(points).timestamp - sumT) * (n * Head(points).timestamp - sumT)
         + Denominator(Tail(points), n, sumT)

\* line 247: the sum of the squares of p - avgPace, n * n times
RECURSIVE SquaredDeviations(_, _, _)
SquaredDeviations(points, n, sumP) ==
    IF points = <<>> THEN 0
    ELSE (n * Head(points).paceInSeconds - sumP) * (n * Head(points).paceInSeconds - sumP)
         + SquaredDeviations(Tail(points), n, sumP)

\* the trend of two points taken for one
TrendOf_FromTwo(points) ==
    LET n == Len(points)
        sumT == SumTimestamps(points)
        sumP == SumPaces(points)
    IN IF n < 2 THEN [improving |-> FALSE, consistent |-> FALSE]
       ELSE [improving |-> Denominator(points, n, sumT) # 0
                           /\ Numerator(points, n, sumT, sumP) < 0,
             consistent |-> sumP > 0
                            /\ 100 * SquaredDeviations(points, n, sumP) < n * sumP * sumP]

\* a slope of 0 taken for an improvement
TrendOf_NonStrict(points) ==
    LET n == Len(points)
        sumT == SumTimestamps(points)
        sumP == SumPaces(points)
    IN IF n < 3 THEN [improving |-> FALSE, consistent |-> FALSE]
       ELSE [improving |-> Denominator(points, n, sumT) # 0
                           /\ Numerator(points, n, sumT, sumP) <= 0,
             consistent |-> sumP > 0
                            /\ 100 * SquaredDeviations(points, n, sumP) < n * sumP * sumP]

\* lines 224-254 for the points found.  The slope is numerator /
\* denominator: negative when the numerator is and the denominator is not 0,
\* NaN when both are 0.  stdDev / avgPace < 0.1 is variance < avgPace ^ 2 /
\* 100 for a positive avgPace, and NaN < 0.1 for avgPace 0.
TrendOf(points) ==
    LET n == Len(points)
        sumT == SumTimestamps(points)
        sumP == SumPaces(points)
    IN IF n < 3 THEN [improving |-> FALSE, consistent |-> FALSE]
       ELSE [improving |-> Denominator(points, n, sumT) # 0
                           /\ Numerator(points, n, sumT, sumP) < 0,
             consistent |-> sumP > 0
                            /\ 100 * SquaredDeviations(points, n, sumP) < n * sumP * sumP]

\* analyzePaceTrend
analyzePaceTrend(activities) ==
    CHOOSE trend \in
        {TrendOf(sorted) :
            sorted \in {SortedByTimestamp(points) :
                          points \in {ActivitiesWithPace(activities)}}} : TRUE

\* Number.prototype.toString of a value num / den, den 1 or 10
FloatToString(value) ==
    IF value.num % value.den = 0 THEN NumberToString(value.num \div value.den)
    ELSE NumberToString(value.num \div value.den) \o <<".">>
         \o NumberToString(((value.num * 10) \div value.den) % 10)

\* toFixed(2) of millionths / den, followed by ' km'
FormatKm(millionths, den) ==
    LET hundredths == ((millionths \div den) + 5000) \div 10000
    IN NumberToString(hundredths \div 100) \o <<".">>
       \o PadStart2(NumberToString(hundredths % 100)) \o <<" ", "k", "m">>

\* HH:MM:SS of seconds / den, each part floored
FormatDuration(seconds, den) ==
    PadStart2(NumberToString(seconds \div (3600 * den))) \o <<":">>
    \o PadStart2(NumberToString(((seconds \div den) % 3600) \div 60)) \o <<":">>
    \o PadStart2(NumberToString((seconds \div den) % 60))

\* lines 150-152: M:SS/km of millionths / den
FormatPace(millionths, den) ==
    LET seconds == (millionths \div 1000000) \div den
    IN NumberToString(seconds \div 60) \o <<":">>
       \o PadStart2(NumberToString(seconds % 60)) \o <<"/", "k", "m">>

\* the total divided by the count whatever the count is
AverageOf_Unguarded(total, count) == [num |-> total, den |-> count]

\* lines 129-139: an average, which stays 0 unless its count is positive
AverageOf(total, count) ==
    IF count > 0 THEN [num |-> total, den |-> count] ELSE [num |-> 0, den |-> 1]

\* lines 22-47 and 128-200: the summary for the running values
SummaryOf(activities, acc) ==
    LET count == Len(activities)
        paceCount == IF acc.validPaceCount > 0 THEN acc.validPaceCount ELSE 1
        trend == IF count >= 3 /\ Len(Timestamps(activities)) >= 3
                 THEN analyzePaceTrend(activities)
                 ELSE [improving |-> FALSE, consistent |-> FALSE]
    IN [totalActivities |-> count,
        period |-> PeriodOf(Timestamps(activities)),
        totals |->
           [distance |-> acc.totalDistance,
            duration |-> acc.totalDuration,
            distanceFormatted |-> FormatKm(acc.totalDistance, 1),
            durationFormatted |-> FormatDuration(acc.totalDuration, 1)],
        averages |->
           [distance |-> AverageOf(acc.totalDistance, count),
            duration |-> AverageOf(acc.totalDuration, count),
            pace |-> AverageOf(acc.totalPace, acc.validPaceCount),
            distanceFormatted |-> FormatKm(acc.totalDistance, count),
            durationFormatted |-> FormatDuration(acc.totalDuration, count),
            paceFormatted |-> FormatPace(acc.totalPace, paceCount)],
        best |->
           [pace |->
               IF acc.bestPaceActivity # <<>>
               THEN <<[activityIndex |-> acc.bestPaceActivity[1],
                       value |-> PaceDatum(activities[acc.bestPaceActivity[1] + 1])[1].formatted]>>
               ELSE <<>>,
            distance |->
               IF acc.longestDistanceActivity # <<>>
               THEN LET distance ==
                           activities[acc.longestDistanceActivity[1] + 1].extractedData.distance
                    IN <<[activityIndex |-> acc.longestDistanceActivity[1],
                          value |-> FloatToString(distance.value) \o <<" ">> \o distance.unit]>>
               ELSE <<>>,
            duration |->
               IF acc.longestDurationActivity # <<>>
               THEN <<[activityIndex |-> acc.longestDurationActivity[1],
                       value |-> activities[acc.longestDurationActivity[1] + 1]
                                    .extractedData.time.formatted]>>
               ELSE <<>>],
        trends |-> [improvement |-> trend.improving, consistency |-> trend.consistent],
        activityTypes |-> acc.activityTypes]

\* the argument taken for a list whatever it is
activitySummaryTask_AnyValue(params) ==
    IF "activities" \notin DOMAIN params
    THEN Thrown(<<"No activities provided for summary">>)
    ELSE IF ~IsArray(params.activities) THEN Result([totalActivities |-> 1])
    ELSE IF params.activities.array = <<>>
    THEN Thrown(<<"No activities provided for summary">>)
    ELSE Result(CHOOSE summary \in
                   {SummaryOf(params.activities.array, acc) :
                       acc \in {Scan(params.activities.array, Len(params.activities.array))}} : TRUE)

\* activitySummaryTask
activitySummaryTask(params) ==
    IF "activities" \notin DOMAIN params
       \/ ~IsArray(params.activities)
       \/ params.activities.array = <<>>
    THEN Thrown(<<"No activities provided for summary">>)
    ELSE Result(CHOOSE summary \in
                   {SummaryOf(params.activities.array, acc) :
                       acc \in {Scan(params.activities.array, Len(params.activities.array))}} : TRUE)

\* this.tasks: the names with a store-reading handler, and all names
QueryTasks == {"get_running_feed", "get_workout_templates", "get_workout_records"}
TaskNames == {"running_notes", "activity_summary"} \cup QueryTasks

\* taskHandler(params): args is <<params>>, or <<>> when params is
\* undefined.  The query handlers declare params = {}; the two task
\* functions destructure their argument, which raises a TypeError on
\* undefined.
CallHandler(st, taskName, args) ==
    LET params == IF args = <<>> THEN NoParams ELSE args[1]
    IN CASE taskName = "running_notes" ->
               IF args = <<>> THEN Thrown(<<"Cannot destructure property 'content'">>)
               ELSE runningNotesTask(params)
         [] taskName = "activity_summary" ->
               IF args = <<>> THEN Thrown(<<"Cannot destructure property 'activities'">>)
               ELSE activitySummaryTask(params)
         [] taskName = "get_running_feed" -> Result(getRunningFeed(st, params))
         [] taskName = "get_workout_templates" -> Result(getWorkoutTemplates(st, params))
         [] taskName = "get_workout_records" -> Result(getWorkoutRecords(st, params))

\* an unknown name is answered by the handler of get_running_feed
processApiRequest_DefaultsToFeed(st, taskName, params) ==
    [st |-> st,
     reply |-> CallHandler(st, IF taskName \in TaskNames THEN taskName
                               ELSE "get_running_feed", <<params>>)]

\* the record queries sort this.workoutRecords itself, not a copy
processApiRequest_SortsStore(st, taskName, params) ==
    [st |-> IF taskName = "get_workout_records"
            THEN [st EXCEPT !.workoutRecords = SortByCreatedAtDesc(@)]
            ELSE st,
     reply |-> IF taskName \notin TaskNames
               THEN Thrown(<<"Unknown task: ", taskName>>)
               ELSE CallHandler(st, taskName, <<params>>)]

\* processApiRequest: the state it leaves, and the handler's result or the
\* error thrown.  No statement of it or of a handler assigns to a collection.
processApiRequest(st, taskName, params) ==
    [st |-> st,
     reply |-> IF taskName \notin TaskNames
               THEN Thrown(<<"Unknown task: ", taskName>>)
               ELSE CallHandler(st, taskName, <<params>>)]

\* JSON.parse and JSON.stringify.  A text that is JSON is held as
\* [json |-> v], v the value it denotes; any other text as [text |-> ...].
JSONParse(text) ==
    IF "json" \in DOMAIN text THEN Result(text.json) ELSE Thrown(<<"Unexpected token">>)

JSONStringify(value) == [json |-> value]

\* a handler's error is answered with success
ResultContent_ErrorAsSuccess(out) ==
    IF out.ok THEN [success |-> TRUE, result |-> out.result]
    ELSE [success |-> TRUE, result |-> out.error]

\* the resultContent handleTaskRequest publishes: { success: true, result }
\* after the handler has returned, { success: false, error: error.message }
\* from the catch block
ResultContent(out) ==
    IF out.ok THEN [success |-> TRUE, result |-> out.result]
    ELSE [success |-> FALSE, error |-> out.error]

\* handleTaskRequest up to the call of publishTaskResult: the state it
\* leaves and the resultContent it publishes.  (out is what the try block
\* comes to; the resultContent is the one member of the set written.)
handleTaskRequest(st, event) ==
    LET parsed == JSONParse(event.content)
        task == Prop(parsed.result, "task")
        out == IF ~parsed.ok THEN Thrown(parsed.error)
               ELSE IF task = <<>> \/ task[1] \notin TaskNames
               THEN Thrown(<<"Unknown task: ",
                             IF task = <<>> THEN "undefined" ELSE task[1]>>)
               ELSE CallHandler(st, task[1], Prop(parsed.result, "params"))
    IN [st |-> st,
        reply |-> CHOOSE content \in {ResultContent(o) : o \in {out}} : TRUE]

\* this.publicKey
DvmPublicKey == <<21, 22, 23>>

\* publishTaskResult: the event handed to relay.publish.  created_at (the
\* clock), id and sig (the hash and signature of the rest) are left out.
publishTaskResult(requestEvent, resultContent) ==
    [kind |-> KindTaskResult,
     pubkey |-> DvmPublicKey,
     tags |-> << <<"e", requestEvent.id>>, <<"p", requestEvent.pubkey>> >>,
     content |-> JSONStringify(resultContent)]

----------------------------------------------------------------------------
(* The requests the model makes.                                           *)

\* the creation time the time-window requests are about
QueryTime == Events[1].created_at

Windows == {NoParams, [since |-> QueryTime, until |-> QueryTime]}
Limits == {NoParams, [limit |-> 1]}
FeedFlags == {NoParams, [include_workouts |-> FALSE]}
TypeFlags == {NoParams, [type |-> "exercise"], [type |-> "workout"]}
CompletedFlags == {NoParams, [completed |-> "true"], [completed |-> "false"]}

\* the note the parser is asked about through the facade
NoteText == <<"5", "k", "m", " ", "1", "h">>

\* the activity that parsing the note gives
NoteActivity == runningNotesTask([content |-> NoteText]).result

\* the names the facade is called with: the tasks and a name that is none
UnknownTask == "no_such_task"
RequestedTasks == TaskNames \cup {UnknownTask}

ParamsOf(taskName) ==
    LET flags == CASE taskName = "get_running_feed" -> FeedFlags
                   [] taskName = "get_workout_templates" -> TypeFlags
                   [] taskName = "get_workout_records" -> CompletedFlags
                   [] OTHER -> {NoParams}
    IN CASE taskName \in QueryTasks ->
               {w @@ l @@ f : w \in Windows, l \in Limits, f \in flags} \cup {[limit |-> 0]}
         [] taskName = "running_notes" -> {NoParams, [content |-> NoteText]}
         [] taskName = "activity_summary" ->
               {NoParams, [activities |-> [array |-> <<>>]],
                [activities |-> [array |-> <<NoteActivity>>]]}
         [] OTHER -> {NoParams}

\* The task requests the relays deliver (kind 23194, tagged with the DVM's
\* key): a body that is not JSON, a task that is not registered, a handler
\* that throws, and a handler that returns, called without params.
TaskRequests == {
    [id |-> 21, kind |-> KindTaskRequest, pubkey |-> PubkeyA,
     content |-> [text |-> "run 5k"]],
    [id |-> 22, kind |-> KindTaskRequest, pubkey |-> PubkeyB,
     content |-> [json |-> [task |-> UnknownTask, params |-> NoParams]]],
    [id |-> 23, kind |-> KindTaskRequest, pubkey |-> PubkeyA,
     content |-> [json |-> [task |-> "running_notes", params |-> NoParams]]],
    [id |-> 24, kind |-> KindTaskRequest, pubkey |-> PubkeyB,
     content |-> [json |-> [task |-> "get_workout_records"]]]}

----------------------------------------------------------------------------
(* The state machine.                                                      *)

\* this.relays: the configured relays, by their place in the list
Relays == 1..NumRelays

\* lines 6-50: the fields the constructor sets, and the histories empty
Constructed ==
    /\ runningNotesFeed = <<>>
    /\ exerciseTemplates = <<>>
    /\ workoutTemplates = <<>>
    /\ workoutRecords = <<>>
    /\ pending = <<>>
    /\ handling = <<>>
    /\ published = <<>>
    /\ delivered = <<>>
    /\ feedLog = <<>>
    /\ exerciseLog = <<>>
    /\ workoutLog = <<>>
    /\ recordLog = <<>>
    /\ startAt = 0
    /\ relayStatus = [r \in Relays |-> "closed"]
    /\ connectListeners = {}
    /\ connectedRelays = <<>>
    /\ subscriptions = [r \in Relays |-> {}]
    /\ publishAt = 0
    /\ taskListSent = {}
    /\ calls = <<>>
    /\ outbox = [r \in Relays |-> <<>>]
    /\ received = <<>>

\* the service as constructed; the parser has not been given a note
Init ==
    /\ Constructed
    /\ noteParts = <<>>
    /\ noteParams = NoParams
    /\ extracted = <<>>
    /\ summaryParams = NoParams
    /\ summarized = <<>>

\* A handler runs to completion, and the continuation that sends its result
\* runs before the next message is taken up.
Idle == pending = <<>> /\ handling = <<>>

\* the history of one collection: the id is logged when the collection has
\* taken the message in
Logged(log, old, new, event) == IF new # old THEN Append(log, event.id) ELSE log

\* the four collections become those of st
StoresBecome(st) ==
    /\ runningNotesFeed' = st.runningNotesFeed
    /\ exerciseTemplates' = st.exerciseTemplates
    /\ workoutTemplates' = st.workoutTemplates
    /\ workoutRecords' = st.workoutRecords

\* The histories are kept to MaxInserts entries each: a delivery that would
\* lengthen one beyond that is not taken.
Install(st, event) ==
    /\ StoresBecome(st)
    /\ delivered' = <<event.id>>
    /\ feedLog' = Logged(feedLog, runningNotesFeed, st.runningNotesFeed, event)
    /\ exerciseLog' = Logged(exerciseLog, exerciseTemplates, st.exerciseTemplates, event)
    /\ workoutLog' = Logged(workoutLog, workoutTemplates, st.workoutTemplates, event)
    /\ recordLog' = Logged(recordLog, workoutRecords, st.workoutRecords, event)
    /\ Len(feedLog') <= MaxInserts
    /\ Len(exerciseLog') <= MaxInserts
    /\ Len(workoutLog') <= MaxInserts
    /\ Len(recordLog') <= MaxInserts
    /\ UNCHANGED <<pending, handling, published, parserVars, summaryVars, requestVars, startVars>>

\* subscribeToRunningNotes: subscription.on('event', ...)
OnRunningNote(event) ==
    /\ Idle
    /\ Install([State EXCEPT !.runningNotesFeed = addNoteToFeed(@, event, Null)], event)

\* subscribeToWorkoutEvents: subscription.on('event', ...)
OnWorkoutEvent(event) ==
    /\ Idle
    /\ Install(processWorkoutEvent(State, event), event)

\* a call of processApiRequest, as the HTTP routes make it
ApiRequest(taskName, params) ==
    /\ Idle
    /\ \E out \in {processApiRequest(State, taskName, params)} :
          /\ pending' = <<[task |-> taskName, params |-> params], out.reply>>
          /\ StoresBecome(out.st)
    /\ delivered' = <<>>
    /\ UNCHANGED <<handling, published, logs, parserVars, summaryVars, requestVars, startVars>>

\* the caller's continuation: res.json(...) with the result, or with the
\* error caught
Respond ==
    /\ pending # <<>>
    /\ pending' = <<>>
    /\ UNCHANGED <<stores, handling, published, logs, delivered, parserVars, summaryVars, requestVars, startVars>>

\* subscribeToTaskRequests: subscription.on('event', ...), up to the call of
\* publishTaskResult
OnTaskRequest(event) ==
    /\ Idle
    /\ \E out \in {handleTaskRequest(State, event)} :
          /\ handling' = <<[event |-> event, reply |-> out.reply]>>
          /\ StoresBecome(out.st)
    /\ delivered' = <<>>
    /\ UNCHANGED <<pending, published, logs, parserVars, summaryVars, requestVars, startVars>>

\* publishTaskResult up to its await: relay.publish(resultEvent) is called
\* and goes through
Publish ==
    /\ handling # <<>>
    /\ published = <<>>
    /\ published' = <<publishTaskResult(handling[1].event, handling[1].reply)>>
    /\ UNCHANGED <<stores, pending, handling, logs, delivered, parserVars, summaryVars, requestVars, startVars>>

\* the rest of publishTaskResult and of handleTaskRequest: both return
Published ==
    /\ published # <<>>
    /\ published' = <<>>
    /\ handling' = <<>>
    /\ UNCHANGED <<stores, pending, logs, delivered, parserVars, summaryVars, requestVars, startVars>>

Next ==
    \/ \E event \in NoteEvents : OnRunningNote(event)
    \/ \E event \in WorkoutEvents : OnWorkoutEvent(event)
    \/ \E taskName \in RequestedTasks : \E params \in ParamsOf(taskName) :
          ApiRequest(taskName, params)
    \/ Respond
    \/ \E event \in TaskRequests : OnTaskRequest(event)
    \/ Publish
    \/ Published

Spec == Init /\ [][Next]_vars

\* The continuation of an await whose promise is settled is a job of the
\* microtask queue, which the event loop drains before it idles.
LiveSpec == Spec /\ WF_vars(Publish) /\ WF_vars(Respond)

----------------------------------------------------------------------------
(* Start-up: start() and publishTaskList.  relay.connect() and the events  *)
(* of a relay belong to nostr-tools, which is not part of the repository:  *)
(* connect() resolves or rejects, and an open relay may call the 'connect' *)
(* listeners registered on it at any later time, or never.  A step is what *)
(* runs between two awaits.                                                *)

\* the three subscriptions of the 'connect' listener
AllSubscriptions == {"task_requests", "running_notes", "workout_events"}

\* dvm.start() is called: the loop calls relayInit and relay.connect() for
\* the first relay and awaits it
Start ==
    /\ startAt = 0
    /\ startAt' = 1
    /\ UNCHANGED <<stores, pending, handling, published, logs, delivered, parserVars, summaryVars, requestVars,
                   relayStatus, connectListeners, connectedRelays, subscriptions,
                   publishAt, taskListSent>>

\* start() after the try block of the relay it awaited: connect() of the
\* next relay is called and awaited; or, after the last, publishTaskList is
\* called (not awaited), which runs up to its first await: relay.publish on
\* the first of this.connectedRelays if there is one
Proceed ==
    IF startAt < NumRelays
    THEN /\ startAt' = startAt + 1
         /\ UNCHANGED <<publishAt, taskListSent>>
    ELSE /\ startAt' = NumRelays + 1
         /\ IF connectedRelays = <<>>
            THEN UNCHANGED <<publishAt, taskListSent>>
            ELSE /\ publishAt' = 1
                 /\ taskListSent' = taskListSent \cup {connectedRelays[1]}

\* relay.connect() resolves: start() registers its 'connect' and 'error'
\* listeners on the relay and goes on
ConnectResolves ==
    /\ startAt \in Relays
    /\ relayStatus' = [relayStatus EXCEPT ![startAt] = "open"]
    /\ connectListeners' = connectListeners \cup {startAt}
    /\ Proceed
    /\ UNCHANGED <<stores, pending, handling, published, logs, delivered, parserVars, summaryVars, requestVars,
                   connectedRelays, subscriptions>>

\* relay.connect() rejects: the catch block logs, and start() goes on
ConnectRejects ==
    /\ startAt \in Relays
    /\ relayStatus' = [relayStatus EXCEPT ![startAt] = "failed"]
    /\ Proceed
    /\ UNCHANGED <<stores, pending, handling, published, logs, delivered, parserVars, summaryVars, requestVars,
                   connectListeners, connectedRelays, subscriptions>>

\* the relay calls the 'connect' listener of start(): the relay is pushed
\* onto this.connectedRelays and the three subscriptions are made
OnConnect(relay) ==
    /\ relay \in connectListeners
    /\ relayStatus[relay] = "open"
    /\ subscriptions[relay] = {}
    /\ connectedRelays' = Append(connectedRelays, relay)
    /\ subscriptions' = [subscriptions EXCEPT ![relay] = AllSubscriptions]
    /\ UNCHANGED <<stores, pending, handling, published, logs, delivered, parserVars, summaryVars, requestVars,
                   startAt, relayStatus, connectListeners, publishAt, taskListSent>>

\* publishTaskList after an await: the loop over this.connectedRelays goes
\* to the next relay the array holds by now, or ends
PublishTaskListNext ==
    /\ publishAt > 0
    /\ IF publishAt < Len(connectedRelays)
       THEN /\ publishAt' = publishAt + 1
            /\ taskListSent' = taskListSent \cup {connectedRelays[publishAt + 1]}
       ELSE /\ publishAt' = 0
            /\ UNCHANGED taskListSent
    /\ UNCHANGED <<stores, pending, handling, published, logs, delivered, parserVars, summaryVars, requestVars,
                   startAt, relayStatus, connectListeners, connectedRelays, subscriptions>>

NextStart ==
    \/ Start
    \/ ConnectResolves
    \/ ConnectRejects
    \/ \E relay \in Relays : OnConnect(relay)
    \/ PublishTaskListNext

\* Every await of start() and publishTaskList is taken to settle, and every
\* open relay to call the listener registered on it.
StartSpec ==
    /\ Init /\ [][NextStart]_vars
    /\ WF_vars(Start)
    /\ WF_vars(ConnectResolves \/ ConnectRejects)
    /\ \A relay \in Relays : WF_vars(OnConnect(relay))
    /\ WF_vars(PublishTaskListNext)

----------------------------------------------------------------------------
(* Vocabulary of the properties.                                           *)

Resident(coll, id) == \E i \in 1..Len(coll) : coll[i].id = id

IdsOf(coll) == [i \in 1..Len(coll) |-> coll[i].id]

Distinct(s) == \A i, j \in 1..Len(s) : s[i] = s[j] => i = j

\* the last n entries of a log
LastN(log, n) == SubSeq(log, IF Len(log) > n THEN Len(log) - n + 1 ELSE 1, Len(log))

\* when the resident record with this id arrived: the place of its latest
\* insertion in the collection's history
Arrival(log, id) ==
    LET at == {i \in 1..Len(log) : log[i] = id}
    IN CHOOSE i \in at : \A j \in at : j <= i

\* this step is a subscription callback called with the message
Delivers(event) == delivered' = <<event.id>>

\* the message carries the properties its handler reads
WellFormed(event) == "pubkey" \in DOMAIN event /\ "tags" \in DOMAIN event

\* the collection a workout message is filed in, before and after a step
KindStore(event) ==
    CASE event.kind = KindExerciseTemplate -> exerciseTemplates
      [] event.kind = KindWorkoutTemplate -> workoutTemplates
      [] event.kind = KindWorkoutRecord -> workoutRecords

KindStoreNext(event) ==
    CASE event.kind = KindExerciseTemplate -> exerciseTemplates'
      [] event.kind = KindWorkoutTemplate -> workoutTemplates'
      [] event.kind = KindWorkoutRecord -> workoutRecords'

KindLog(event) ==
    CASE event.kind = KindExerciseTemplate -> exerciseLog
      [] event.kind = KindWorkoutTemplate -> workoutLog
      [] event.kind = KindWorkoutRecord -> recordLog

KindMax(event) ==
    CASE event.kind = KindExerciseTemplate -> maxTemplatesSize
      [] event.kind = KindWorkoutTemplate -> maxTemplatesSize
      [] event.kind = KindWorkoutRecord -> maxRecordsSize

----------------------------------------------------------------------------
(* C1: no collection ever holds two records with the same id, and a        *)
(* message whose id is resident in a collection it is ingested into leaves *)
(* that collection as it was (same records, same order, same size).        *)

NoDuplicateIds ==
    /\ Distinct(IdsOf(runningNotesFeed))
    /\ Distinct(IdsOf(exerciseTemplates))
    /\ Distinct(IdsOf(workoutTemplates))
    /\ Distinct(IdsOf(workoutRecords))

DuplicateLeavesUnchanged ==
    /\ \A event \in NoteEvents :
          Delivers(event) /\ Resident(runningNotesFeed, event.id)
             => runningNotesFeed' = runningNotesFeed
    /\ \A event \in WorkoutEvents :
          /\ Delivers(event) /\ Resident(KindStore(event), event.id)
                => KindStoreNext(event) = KindStore(event)
          /\ Delivers(event) /\ Resident(runningNotesFeed, event.id)
                => runningNotesFeed' = runningNotesFeed

C1_Dedup == []NoDuplicateIds /\ [][DuplicateLeavesUnchanged]_vars

\* note 8 is in the feed, has been followed by another message, and has
\* just been delivered again
C1_Witness ==
    /\ delivered = <<8>>
    /\ Resident(runningNotesFeed, 8)
    /\ Len(feedLog) >= 2
    /\ feedLog[Len(feedLog)] # 8

----------------------------------------------------------------------------
(* C2: every collection holds at most its maximum size, and once more than *)
(* that many messages with pairwise distinct ids have been ingested into a *)
(* collection it holds exactly the maximum, and they are the most recently *)
(* ingested ones.                                                          *)

Capacity(coll, log, max) ==
    /\ Len(coll) <= max
    /\ Distinct(log) /\ Len(log) > max =>
          /\ Len(coll) = max
          /\ {coll[i].id : i \in 1..Len(coll)} = {LastN(log, max)[i] : i \in 1..max}

C2_Capacity ==
    /\ Capacity(runningNotesFeed, feedLog, maxFeedSize)
    /\ Capacity(exerciseTemplates, exerciseLog, maxTemplatesSize)
    /\ Capacity(workoutTemplates, workoutLog, maxTemplatesSize)
    /\ Capacity(workoutRecords, recordLog, maxRecordsSize)

\* the feed and the record collection have each taken in one message more
\* than they hold, and a template collection has too
C2_Witness ==
    \/ /\ Distinct(feedLog) /\ Len(feedLog) = maxFeedSize + 1
       /\ Distinct(recordLog) /\ Len(recordLog) = maxRecordsSize + 1
    \/ /\ Distinct(exerciseLog) /\ Len(exerciseLog) = maxTemplatesSize + 1
       /\ Distinct(feedLog) /\ Len(feedLog) = maxFeedSize + 1

----------------------------------------------------------------------------
(* C3: a well-formed message with a non-resident id, ingested into a       *)
(* collection that is at capacity, is taken in: its record becomes the     *)
(* head, the other residents move down one place, and the one record that  *)
(* leaves is the resident that arrived earliest.                           *)

EvictsOldest(old, new, log, event) ==
    /\ Len(new) = Len(old)
    /\ new[1].id = event.id
    /\ \A i \in 1..(Len(old) - 1) : new[i + 1] = old[i]
    /\ \A i \in 1..Len(old) :
          Arrival(log, old[Len(old)].id) <= Arrival(log, old[i].id)

FullStoreAccepts ==
    /\ \A event \in NoteEvents :
          /\ Delivers(event) /\ WellFormed(event)
          /\ ~Resident(runningNotesFeed, event.id)
          /\ Len(runningNotesFeed) = maxFeedSize
          => EvictsOldest(runningNotesFeed, runningNotesFeed', feedLog, event)
    /\ \A event \in WorkoutEvents :
          /\ /\ Delivers(event) /\ WellFormed(event)
             /\ ~Resident(KindStore(event), event.id)
             /\ Len(KindStore(event)) = KindMax(event)
             => EvictsOldest(KindStore(event), KindStoreNext(event), KindLog(event), event)
          /\ /\ Delivers(event) /\ WellFormed(event)
             /\ ~Resident(KindStore(event), event.id)
             /\ ~Resident(runningNotesFeed, event.id)
             /\ Len(runningNotesFeed) = maxFeedSize
             => EvictsOldest(runningNotesFeed, runningNotesFeed', feedLog, event)

C3_FullStoreAccepts == [][FullStoreAccepts]_vars

\* the latest message went into a full feed and into a full template
\* collection, and heads both
C3_Witness ==
    /\ Len(feedLog) > maxFeedSize
    /\ Len(workoutLog) > maxTemplatesSize
    /\ delivered = <<feedLog[Len(feedLog)]>>
    /\ delivered = <<workoutLog[Len(workoutLog)]>>
    /\ runningNotesFeed[1].id = delivered[1]
    /\ workoutTemplates[1].id = delivered[1]

----------------------------------------------------------------------------
(* C4, as claimed: ingesting a message into one collection leaves every    *)
(* other collection unchanged; a workout message does not change the feed  *)
(* and a note does not change the template and record collections.         *)

EachDeliveryChangesOneStore ==
    /\ \A event \in NoteEvents :
          Delivers(event) =>
             UNCHANGED <<exerciseTemplates, workoutTemplates, workoutRecords>>
    /\ \A event \in WorkoutEvents :
          Delivers(event) =>
             /\ UNCHANGED runningNotesFeed
             /\ event.kind # KindExerciseTemplate => UNCHANGED exerciseTemplates
             /\ event.kind # KindWorkoutTemplate => UNCHANGED workoutTemplates
             /\ event.kind # KindWorkoutRecord => UNCHANGED workoutRecords

C4_Original == [][EachDeliveryChangesOneStore]_vars

(* C4, amended: a note changes no collection but the feed; a workout       *)
(* message changes no collection but the one of its kind and the feed, and *)
(* the feed only by taking that same message in at its head.               *)

DeliveryChangesOwnStoreAndFeed ==
    /\ \A event \in NoteEvents :
          Delivers(event) =>
             UNCHANGED <<exerciseTemplates, workoutTemplates, workoutRecords>>
    /\ \A event \in WorkoutEvents :
          Delivers(event) =>
             /\ event.kind # KindExerciseTemplate => UNCHANGED exerciseTemplates
             /\ event.kind # KindWorkoutTemplate => UNCHANGED workoutTemplates
             /\ event.kind # KindWorkoutRecord => UNCHANGED workoutRecords
             /\ \/ UNCHANGED runningNotesFeed
                \/ /\ runningNotesFeed'[1].id = event.id
                   /\ KindStoreNext(event)[1].id = event.id

C4_Amended == [][DeliveryChangesOwnStoreAndFeed]_vars

\* exercise template 4 has just been filed, and heads the feed as well
C4_Witness ==
    /\ delivered = <<4>>
    /\ Len(exerciseTemplates) >= 1 /\ exerciseTemplates[1].id = 4
    /\ Len(runningNotesFeed) >= 2 /\ runningNotesFeed[1].id = 4
    /\ runningNotesFeed[1].eventType = "Exercise Template"
    /\ Len(workoutRecords) >= 1

----------------------------------------------------------------------------
(* C5: over any sequence of ingestions a collection takes a given message  *)
(* id in at most once, whether or not the first record is still resident.  *)

C5_InsertedAtMostOnce ==
    /\ Distinct(feedLog)
    /\ Distinct(exerciseLog)
    /\ Distinct(workoutLog)
    /\ Distinct(recordLog)

----------------------------------------------------------------------------
(* C6: a resident record never changes, and it leaves its collection only  *)
(* as the last record of a full collection that takes a new message in; a  *)
(* query changes no collection.                                            *)

WriteOnce(old, new, max) ==
    \/ new = old
    \/ /\ Len(new) >= 1
       /\ ~Resident(old, new[1].id)
       /\ new = IF Len(old) >= max
                THEN <<new[1]>> \o SubSeq(old, 1, max - 1)
                ELSE <<new[1]>> \o old

WriteOnceStep ==
    /\ WriteOnce(runningNotesFeed, runningNotesFeed', maxFeedSize)
    /\ WriteOnce(exerciseTemplates, exerciseTemplates', maxTemplatesSize)
    /\ WriteOnce(workoutTemplates, workoutTemplates', maxTemplatesSize)
    /\ WriteOnce(workoutRecords, workoutRecords', maxRecordsSize)
    /\ pending' # pending => UNCHANGED stores

C6_WriteOnce == [][WriteOnceStep]_vars

\* a record has left the feed by truncation, and the message that is now
\* second in the feed has just been delivered again
C6_Witness ==
    /\ Len(feedLog) > maxFeedSize
    /\ Len(runningNotesFeed) = maxFeedSize
    /\ delivered = <<runningNotesFeed[2].id>>

----------------------------------------------------------------------------
(* C7: in every collection the records stand in arrival order, the later   *)
(* arrival nearer the head, and the head is the latest insertion, whatever *)
(* the created_at of the messages.                                         *)

ArrivalOrder(coll, log) ==
    /\ \A i \in 1..Len(coll) : \E k \in 1..Len(log) : log[k] = coll[i].id
    /\ \A i, j \in 1..Len(coll) :
          i < j => Arrival(log, coll[i].id) > Arrival(log, coll[j].id)
    /\ Len(log) > 0 => Len(coll) > 0 /\ coll[1].id = log[Len(log)]

C7_ArrivalOrder ==
    /\ ArrivalOrder(runningNotesFeed, feedLog)
    /\ ArrivalOrder(exerciseTemplates, exerciseLog)
    /\ ArrivalOrder(workoutTemplates, workoutLog)
    /\ ArrivalOrder(workoutRecords, recordLog)

\* the head of the feed and of the record collection was created before
\* the record behind it
C7_Witness ==
    /\ Len(runningNotesFeed) = 2
    /\ runningNotesFeed[1].created_at < runningNotesFeed[2].created_at
    /\ Len(workoutRecords) = 2
    /\ workoutRecords[1].created_at < workoutRecords[2].created_at

----------------------------------------------------------------------------
(* Vocabulary of the properties of queries: the request that is pending,   *)
(* what it asked for, and what it was answered.                            *)

Asked(taskName) == pending # <<>> /\ pending[1].task = taskName /\ pending[2].ok

\* a query handler has answered the pending request
AskedQuery == pending # <<>> /\ pending[1].task \in QueryTasks /\ pending[2].ok

\* a parameter of the pending request, or what the documentation of the
\* handler gives as its default
Given(f, dflt) ==
    IF f \in DOMAIN pending[1].params THEN pending[1].params[f] ELSE dflt

\* what the pending request returned, and the records it was asked over
Answer ==
    CASE pending[1].task = "get_running_feed" -> pending[2].result.feed
      [] pending[1].task = "get_workout_templates" -> pending[2].result.templates
      [] pending[1].task = "get_workout_records" -> pending[2].result.records

Queried ==
    CASE pending[1].task = "get_running_feed" -> runningNotesFeed
      [] pending[1].task = "get_workout_templates" -> exerciseTemplates \o workoutTemplates
      [] pending[1].task = "get_workout_records" -> workoutRecords

\* the kind-specific filter of the pending request
PassesKindFilter(r) ==
    CASE pending[1].task = "get_running_feed" ->
            Given("include_workouts", TRUE) \/ (r.kind = KindNote /\ r.eventType = Null)
      [] pending[1].task = "get_workout_templates" ->
            /\ Given("type", Null) = "exercise" => r.kind = KindExerciseTemplate
            /\ Given("type", Null) = "workout" => r.kind = KindWorkoutTemplate
      [] pending[1].task = "get_workout_records" ->
            /\ Given("completed", Null) = "true" => r.completed = TRUE
            /\ Given("completed", Null) = "false" => r.completed = FALSE

Elements(s) == {s[i] : i \in 1..Len(s)}

NewestFirst(s) == \A i, j \in 1..Len(s) : i < j => s[i].created_at >= s[j].created_at

----------------------------------------------------------------------------
(* C8: the list get_running_feed returns is in non-increasing created_at   *)
(* order, whatever order the messages arrived in.                          *)

C8_FeedNewestFirst == Asked("get_running_feed") => NewestFirst(Answer)

----------------------------------------------------------------------------
(* C9: get_workout_records and get_workout_templates return their items in *)
(* non-increasing created_at order; the templates of both collections are  *)
(* merged, so that what is returned are the `limit` newest templates that  *)
(* match, of either kind.                                                  *)

Matching ==
    {r \in Elements(Queried) :
        /\ r.created_at >= Given("since", 0)
        /\ r.created_at <= Given("until", MAX_SAFE_INTEGER)
        /\ PassesKindFilter(r)}

NewestMatching ==
    /\ NewestFirst(Answer)
    /\ Elements(Answer) \subseteq Matching
    /\ Len(Answer) = Cardinality(Elements(Answer))
    /\ Len(Answer) = IF Cardinality(Matching) < Given("limit", DefaultLimit)
                     THEN Cardinality(Matching) ELSE Given("limit", DefaultLimit)
    /\ \A r \in Elements(Answer) : \A m \in Matching \ Elements(Answer) :
          m.created_at <= r.created_at

C9_SortedQueries ==
    Asked("get_workout_templates") \/ Asked("get_workout_records") => NewestMatching

\* an unrestricted template query has returned a workout template ahead of
\* an older exercise template, which the merge had put first
C9_Witness ==
    /\ Asked("get_workout_templates")
    /\ pending[1].params = NoParams
    /\ Len(Answer) = 2
    /\ Answer[1].kind = KindWorkoutTemplate
    /\ Answer[2].kind = KindExerciseTemplate
    /\ Answer[1].created_at > Answer[2].created_at

----------------------------------------------------------------------------
(* C10: a query returns only records with since <= created_at <= until,    *)
(* and both bounds are inclusive: no record inside the window that passes  *)
(* the kind filter is left out, unless the limit cut it.  With             *)
(* since = until = T only created_at = T is returned; with the defaults    *)
(* the window leaves nothing out.                                          *)

----------------------------------------------------------------------------
(* C11: for a limit that is not negative a query returns at most `limit`   *)
(* items, and the limit is applied last: what is returned is the first     *)
(* `limit` entries of the sequence the same request yields when nothing is *)
(* cut, which holds every record that passes the time window and the kind  *)
(* filter, once each.                                                      *)

\* the list in a query handler's result
Listed(taskName, result) ==
    CASE taskName = "get_running_feed" -> result.feed
      [] taskName = "get_workout_templates" -> result.templates
      [] taskName = "get_workout_records" -> result.records

\* what the pending request yields when its limit is the size of the
\* queried collection, so that the limit cuts nothing
Unlimited ==
    Listed(pending[1].task,
           processApiRequest(State, pending[1].task,
                             [limit |-> Len(Queried)] @@ pending[1].params).reply.result)

C11_Limit ==
    AskedQuery /\ Given("limit", DefaultLimit) >= 0 =>
       /\ Len(Answer) <= Given("limit", DefaultLimit)
       /\ Elements(Unlimited) = Matching
       /\ Len(Unlimited) = Cardinality(Matching)
       /\ Answer = SubSeq(Unlimited, 1,
                          IF Given("limit", DefaultLimit) < Len(Unlimited)
                          THEN Given("limit", DefaultLimit) ELSE Len(Unlimited))

\* a record query with limit 1 and a completion filter has returned one
\* record, which is not the head of the collection, and has cut another
C11_Witness ==
    /\ Asked("get_workout_records")
    /\ "completed" \in DOMAIN pending[1].params
    /\ Given("limit", DefaultLimit) = 1
    /\ Len(Answer) = 1
    /\ Answer[1] # workoutRecords[1]
    /\ Len(Unlimited) = 2

----------------------------------------------------------------------------
(* C12: the total a query returns is the size of the queried collection as *)
(* it stands, whatever the window, the limit and the kind filter; for      *)
(* get_workout_templates it is the pair of the sizes of the two template   *)
(* collections, also when `type` restricts the list to one kind.           *)

C12_Total ==
    /\ Asked("get_running_feed") =>
          pending[2].result.total = Len(runningNotesFeed)
    /\ Asked("get_workout_templates") =>
          pending[2].result.total = [exercise |-> Len(exerciseTemplates),
                                     workout |-> Len(workoutTemplates)]
    /\ Asked("get_workout_records") =>
          pending[2].result.total = Len(workoutRecords)

\* a template query restricted to exercise templates and to a window that
\* holds none has returned nothing, and reports one template of each kind
C12_Witness ==
    /\ Asked("get_workout_templates")
    /\ Given("type", Null) = "exercise"
    /\ "since" \in DOMAIN pending[1].params
    /\ Answer = <<>>
    /\ pending[2].result.total = [exercise |-> 1, workout |-> 1]

----------------------------------------------------------------------------
(* C13: get_running_feed with include_workouts = false returns only        *)
(* entries of kind 1 without an eventType label; get_workout_templates     *)
(* with type "exercise" returns only kind 33401 and with type "workout"    *)
(* only kind 33402; get_workout_records with completed = true returns only *)
(* records whose completed flag is true and with completed = false only    *)
(* records whose flag is false.  With include_workouts = true, or the type *)
(* or completed filter absent, no record inside the window is left out for *)
(* its kind or flag: all of them are returned unless the limit cut some.   *)

\* every record of the queried collection inside the window of the pending
\* request is in its answer, if the limit cut nothing
NothingRestricted ==
    Len(Answer) < Given("limit", DefaultLimit) =>
       \A r \in Elements(Queried) :
          r.created_at >= Given("since", 0) /\ r.created_at <= Given("until", MAX_SAFE_INTEGER)
             => r \in Elements(Answer)

C13_KindFilters ==
    /\ Asked("get_running_feed") =>
          IF Given("include_workouts", TRUE)
          THEN NothingRestricted
          ELSE \A r \in Elements(Answer) : r.kind = KindNote /\ r.eventType = Null
    /\ Asked("get_workout_templates") =>
          CASE Given("type", Null) = "exercise" ->
                  \A r \in Elements(Answer) : r.kind = KindExerciseTemplate
            [] Given("type", Null) = "workout" ->
                  \A r \in Elements(Answer) : r.kind = KindWorkoutTemplate
            [] OTHER -> NothingRestricted
    /\ Asked("get_workout_records") =>
          CASE Given("completed", Null) = "true" ->
                  \A r \in Elements(Answer) : r.completed = TRUE
            [] Given("completed", Null) = "false" ->
                  \A r \in Elements(Answer) : r.completed = FALSE
            [] OTHER -> NothingRestricted

\* the feed holds a note and, ahead of it, the entry of a workout message;
\* a feed query with include_workouts = false has returned the note alone
C13_Witness ==
    /\ Asked("get_running_feed")
    /\ Given("include_workouts", TRUE) = FALSE
    /\ Len(runningNotesFeed) = 2
    /\ runningNotesFeed[1].eventType # Null
    /\ Answer = <<runningNotesFeed[2]>>

----------------------------------------------------------------------------
(* C14: every operation of the dispatch facade (running_notes,             *)
(* activity_summary, get_running_feed, get_workout_templates,              *)
(* get_workout_records and any unknown name), whether it returns a result  *)
(* or fails, leaves the four stores unchanged: the same records in the     *)
(* same order.  In particular the sort inside the record and template      *)
(* queries does not reorder the store.                                     *)

\* this step is a dispatch: processApiRequest was called, or a task request
\* was handled
Dispatched ==
    \/ pending = <<>> /\ pending' # <<>>
    \/ handling = <<>> /\ handling' # <<>>

C14_StoresUnchanged == [][Dispatched => UNCHANGED stores]_vars

\* a record query has returned two records newest first, and the store
\* still holds them the other way round
C14_Witness ==
    /\ Asked("get_workout_records")
    /\ Len(workoutRecords) = 2
    /\ Answer = <<workoutRecords[2], workoutRecords[1]>>

----------------------------------------------------------------------------
(* C15: dispatching a name that is not in the task list fails with an      *)
(* unknown-task failure and calls no handler.  processApiRequest throws    *)
(* "Unknown task: <name>" (what the caller of the direct transport gets);  *)
(* handleTaskRequest publishes a result with success = false and an error  *)
(* naming the task.                                                        *)

\* the task a request message names, if its content is JSON
RequestedTask(event) ==
    IF "json" \in DOMAIN event.content THEN Prop(event.content.json, "task") ELSE <<>>

----------------------------------------------------------------------------
(* C16: relay.publish going through, every task request the DVM receives   *)
(* is eventually answered by a result message of kind 23195 tagged with    *)
(* the id of the request ("e") and the pubkey of the requester ("p").  Its *)
(* content is {success: true, result} when the handler returns, and        *)
(* {success: false, error} when the body of the request cannot be parsed,  *)
(* the task is unknown, or the handler throws: no failure is dropped and   *)
(* none is answered with success.                                          *)

\* the request names a task of the list, and the handler called with the
\* params of the request returns
HandlerReturns(event) ==
    /\ RequestedTask(event) # <<>>
    /\ RequestedTask(event)[1] \in TaskNames
    /\ CallHandler(State, RequestedTask(event)[1], Prop(event.content.json, "params")).ok

\* message is the answer the claim describes to the request
Answers(message, event) ==
    /\ message.kind = KindTaskResult
    /\ message.tags = << <<"e", event.id>>, <<"p", event.pubkey>> >>
    /\ IF HandlerReturns(event)
       THEN message.content =
               JSONStringify(
                  [success |-> TRUE,
                   result |-> CallHandler(State, RequestedTask(event)[1],
                                          Prop(event.content.json, "params")).result])
       ELSE /\ DOMAIN message.content.json = {"success", "error"}
            /\ message.content.json.success = FALSE

Received(event) == handling # <<>> /\ handling[1].event = event

Answered(event) == published # <<>> /\ Answers(published[1], event)

C16_RequestAnswered ==
    /\ [](published # <<>> => Answered(handling[1].event))
    /\ \A event \in TaskRequests : Received(event) ~> Answered(event)

\* the handler of a request has thrown (running_notes without content), and
\* the failure is being published
C16_Witness ==
    /\ published # <<>>
    /\ handling[1].event.content = [json |-> [task |-> "running_notes", params |-> NoParams]]
    /\ published[1].content.json =
          [success |-> FALSE, error |-> <<"No content provided to parse">>]

----------------------------------------------------------------------------
(* C17: after start(), every configured relay whose connection succeeded   *)
(* has been subscribed for task requests, running notes and workout        *)
(* events, is in this.connectedRelays, and has been sent the kind-31990    *)
(* task-list event.                                                        *)

\* relay has all of what start() is to give a connected relay
Served(relay) ==
    /\ subscriptions[relay] = AllSubscriptions
    /\ \E k \in 1..Len(connectedRelays) : connectedRelays[k] = relay
    /\ relay \in taskListSent

C17_Startup ==
    \A relay \in Relays : (relayStatus[relay] = "open") ~> Served(relay)

----------------------------------------------------------------------------
(* C18: filing a workout message whose tag list lacks any of the labels    *)
(* the handlers read never fails, and the record gets the default of each  *)
(* missing label: '' for d, type, difficulty, duration and the weather     *)
(* condition, [] for the labels read with filter or slice, null for start  *)
(* and end.  completed is true only if there is a 'completed' tag whose    *)
(* value is exactly 'true', and false otherwise.  The duration of a record *)
(* is end - start if both tags are there, and null otherwise.              *)

HasTag(tags, label) == \E i \in 1..Len(tags) : Len(tags[i]) >= 1 /\ tags[i][1] = label

HasTagValue(tags, label, value) ==
    \E i \in 1..Len(tags) : Len(tags[i]) >= 2 /\ tags[i][1] = label /\ tags[i][2] = value

ExerciseTemplateDefaults(r) ==
    LET tags == r.raw_event.tags
    IN /\ ~HasTag(tags, "d") => r.d_tag = ""
       /\ ~HasTag(tags, "difficulty") => r.difficulty = ""
       /\ ~HasTag(tags, "format") => r.format = <<>>
       /\ ~HasTag(tags, "format_units") => r.format_units = <<>>
       /\ ~HasTag(tags, "equipment") => r.equipment = <<>>
       /\ ~HasTag(tags, "t") => r.hashtags = <<>>

WorkoutTemplateDefaults(r) ==
    LET tags == r.raw_event.tags
    IN /\ ~HasTag(tags, "d") => r.d_tag = ""
       /\ ~HasTag(tags, "duration") => r.duration = ""
       /\ ~HasTag(tags, "difficulty") => r.difficulty = ""
       /\ ~HasTag(tags, "exercise") => r.exercises = <<>>
       /\ ~HasTag(tags, "t") => r.hashtags = <<>>

WorkoutRecordDefaults(r) ==
    LET tags == r.raw_event.tags
    IN /\ ~HasTag(tags, "d") => r.d_tag = ""
       /\ ~HasTag(tags, "type") => r.type = ""
       /\ ~HasTag(tags, "weather_condition") => r.weather.condition = ""
       /\ ~HasTag(tags, "weather_temp") => r.weather.temp = <<>>
       /\ ~HasTag(tags, "weather_humidity") => r.weather.humidity = <<>>
       /\ ~HasTag(tags, "heart_rate_avg") => r.heart_rate_avg = <<>>
       /\ ~HasTag(tags, "cadence_avg") => r.cadence_avg = <<>>
       /\ ~HasTag(tags, "exercise") => r.exercises = <<>>
       /\ ~HasTag(tags, "split") => r.splits = <<>>
       /\ ~HasTag(tags, "t") => r.hashtags = <<>>
       /\ ~HasTag(tags, "start") => r.start = <<>>
       /\ ~HasTag(tags, "end") => r.end = <<>>
       /\ r.completed \in BOOLEAN
       /\ r.completed => HasTagValue(tags, "completed", "true")
       /\ r.duration = IF HasTag(tags, "start") /\ HasTag(tags, "end")
                       THEN <<r.end[1] - r.start[1]>>
                       ELSE <<>>

C18_TagDefaults ==
    /\ \A i \in 1..Len(exerciseTemplates) : ExerciseTemplateDefaults(exerciseTemplates[i])
    /\ \A i \in 1..Len(workoutTemplates) : WorkoutTemplateDefaults(workoutTemplates[i])
    /\ \A i \in 1..Len(workoutRecords) : WorkoutRecordDefaults(workoutRecords[i])
    /\ \A event \in WorkoutEvents :
          delivered = <<event.id>> /\ "tags" \in DOMAIN event =>
             Resident(KindStore(event), event.id)

\* the records hold one filed from a message with neither start nor end nor
\* a completed tag of value 'true', and one from a message with both times
C18_Witness ==
    /\ Len(workoutRecords) = 2
    /\ workoutRecords[1].start = <<>> /\ workoutRecords[1].duration = <<>>
    /\ workoutRecords[1].type = "" /\ workoutRecords[1].completed = FALSE
    /\ workoutRecords[2].duration = <<60>>

----------------------------------------------------------------------------
(* The parser on its own: runningNotesTask is a function of its params, so  *)
(* it is applied once to each note that can be put together from a table of *)
(* phrases.                                                                 *)

\* the phrases notes are made of.  durations are the seconds of what the
\* phrase holds in one of the duration forms, in the order of the text: the
\* 5:13 of 5:13/km and the "5 m" of 5 miles among them; elapsed are the seconds
\* of the mentions that state a duration.
Phrases ==
    << [text |-> <<"2", "5", ":", "3", "0">>,   durations |-> <<1530>>, elapsed |-> <<1530>>],
       [text |-> <<"1", ":", "0", "5", ":", "1", "0">>, durations |-> <<3910>>, elapsed |-> <<3910>>],
       [text |-> <<"2", " ", "h", "o", "u", "r", "s">>, durations |-> <<7200>>, elapsed |-> <<7200>>],
       [text |-> <<"1", "0", " ", "m", "i", "n">>,  durations |-> <<600>>,  elapsed |-> <<600>>],
       [text |-> <<"4", "5", "s">>,     durations |-> <<45>>,   elapsed |-> <<45>>],
       [text |-> <<"5", "k", "m">>,     durations |-> <<>>,     elapsed |-> <<>>],
       [text |-> <<"5", ":", "1", "3", "/", "k", "m">>, durations |-> <<313>>,  elapsed |-> <<>>],
       [text |-> <<"g", "r", "e", "a", "t">>,   durations |-> <<>>,     elapsed |-> <<>>] >>

\* phrases that state a distance, a pace or an elevation in other words, and
\* two whole notes: the one of the user guide and the one of test-dvm.js
MorePhrases ==
    << [text |-> <<"5", " ", "m", "i", "l", "e", "s">>,            durations |-> <<300>>,  elapsed |-> <<>>],
       [text |-> <<"5", " ", "m", "i">>,               durations |-> <<300>>,  elapsed |-> <<>>],
       [text |-> <<"1", " ", "m", "i", "l", "e">>,             durations |-> <<60>>,   elapsed |-> <<>>],
       [text |-> <<"5", " ", "k", "i", "l", "o", "m", "e", "t", "e", "r", "s">>,       durations |-> <<>>,     elapsed |-> <<>>],
       [text |-> <<"0", "k", "m">>,                durations |-> <<>>,     elapsed |-> <<>>],
       [text |-> <<"1", "5", "0", "m", " ", "e", "l", "e", "v", "a", "t", "i", "o", "n">>,     durations |-> <<9000>>, elapsed |-> <<>>],
       [text |-> <<"5", ":", "1", "3", " ", "p", "e", "r", " ", "k", "i", "l", "o", "m", "e", "t", "e", "r">>, durations |-> <<313>>,  elapsed |-> <<>>],
       [text |-> <<"8", ":", "0", "0", "/", "m", "i", "l", "e">>,          durations |-> <<480>>,  elapsed |-> <<>>],
       [text |-> <<"R", "a", "n", " ", "5", "k", "m", " ", "i", "n", " ", "2", "5", ":", "3", "0", ",", " ", "f", "e", "l", "t", " ", "g", "r", "e", "a", "t", ",", " ", "s", "u", "n", "n", "y", " ", "w", "e", "a", "t", "h", "e", "r">>,
        durations |-> <<1530>>, elapsed |-> <<1530>>],
       [text |-> <<"J", "u", "s", "t", " ", "r", "a", "n", " ", "5", "k", "m", " ", "i", "n", " ", "2", "5", ":", "3", "0", " ", "w", "i", "t", "h", " ", "1", "5", "0", "m", " ", "e", "l", "e", "v", "a", "t", "i", "o", "n", ".", " ", "F", "e", "l", "t", " ", "g", "r", "e", "a", "t", "!">>,
        durations |-> <<1530, 9000>>, elapsed |-> <<1530>>] >>

AllPhrases == Phrases \o MorePhrases

\* the notes: at most MaxPhrases of the first phrases, or one phrase fewer of
\* all of them
Notes ==
    UNION {[1..n -> 1..Len(Phrases)] : n \in 0..MaxPhrases}
    \cup UNION {[1..n -> 1..Len(AllPhrases)] : n \in 0..(MaxPhrases - 1)}

\* the content of a note: its phrases with a space between them
RECURSIVE ContentOf(_)
ContentOf(parts) ==
    IF parts = <<>> THEN <<>>
    ELSE IF Len(parts) = 1 THEN AllPhrases[parts[1]].text
    ELSE AllPhrases[parts[1]].text \o <<" ">> \o ContentOf(Tail(parts))

\* a request to parse a note carries its content; one without content may
\* carry an empty string or nothing at all
InitExtract ==
    /\ Constructed
    /\ noteParts \in Notes
    /\ noteParams \in {[content |-> ContentOf(noteParts)]}
                      \cup (IF noteParts = <<>> THEN {NoParams} ELSE {})
    /\ extracted = <<>>
    /\ summaryParams = NoParams
    /\ summarized = <<>>

\* runningNotesTask(params)
Extract ==
    /\ extracted = <<>>
    /\ \E r \in {runningNotesTask(noteParams)} : extracted' = <<r>>
    /\ UNCHANGED <<stores, pending, handling, published, delivered, logs,
                   noteParts, noteParams, startVars, summaryVars, requestVars>>

NextExtract == Extract

SpecExtract == InitExtract /\ [][NextExtract]_vars

\* the measurements of the note, once it has been parsed
Measured == extracted # <<>> /\ extracted[1].ok
Measurements == extracted[1].result.extractedData

\* C19: the measurements of a note never hold both pace and calculatedPace,
\* and calculatedPace is among them exactly when pace is not and distance and
\* time both are.
C19_PaceExclusive ==
    Measured =>
        /\ ~("pace" \in DOMAIN Measurements /\ "calculatedPace" \in DOMAIN Measurements)
        /\ "calculatedPace" \in DOMAIN Measurements
             <=> /\ "pace" \notin DOMAIN Measurements
                 /\ "distance" \in DOMAIN Measurements
                 /\ "time" \in DOMAIN Measurements

\* a note with a distance and a duration and no pace has been given its
\* derived pace
C19_Witness ==
    /\ Measured
    /\ {"distance", "time", "calculatedPace"} \subseteq DOMAIN Measurements
    /\ "pace" \notin DOMAIN Measurements

\* the seconds of the duration mentions of a note, in the order of the text
RECURSIVE Mentions(_)
Mentions(parts) ==
    IF parts = <<>> THEN <<>> ELSE AllPhrases[Head(parts)].durations \o Mentions(Tail(parts))

RECURSIVE SumOf(_)
SumOf(seconds) == IF seconds = <<>> THEN 0 ELSE Head(seconds) + SumOf(Tail(seconds))

\* C20: the time of a note counts every duration mention of the text
\* (H:MM:SS, MM:SS, N hours, N minutes, N seconds): totalSeconds is the sum of
\* the seconds of all of them, and hours, minutes and seconds are its floor
\* decomposition, hours * 3600 + minutes * 60 + seconds = totalSeconds with
\* minutes and seconds below 60.
C20_DurationSum ==
    Measured =>
        /\ Mentions(noteParts) # <<>> =>
              /\ "time" \in DOMAIN Measurements
              /\ Measurements.time.totalSeconds = SumOf(Mentions(noteParts))
        /\ "time" \in DOMAIN Measurements =>
              LET time == Measurements.time
              IN /\ time.hours * 3600 + time.minutes * 60 + time.seconds = time.totalSeconds
                 /\ time.hours >= 0 /\ time.minutes \in 0..59 /\ time.seconds \in 0..59

\* a note with three duration mentions of different forms, adding up to more
\* than an hour, has been parsed
C20_Witness ==
    /\ Measured
    /\ Len(Mentions(noteParts)) = 3
    /\ \E i, j \in 1..3 : Mentions(noteParts)[i] # Mentions(noteParts)[j]
    /\ "time" \in DOMAIN Measurements
    /\ Measurements.time.hours > 0 /\ Measurements.time.minutes > 0 /\ Measurements.time.seconds > 0

\* the seconds of the mentions of a note that state a duration
RECURSIVE Elapsed(_)
Elapsed(parts) ==
    IF parts = <<>> THEN <<>> ELSE AllPhrases[Head(parts)].elapsed \o Elapsed(Tail(parts))

\* duration.totalSeconds of the measurements, 0 when they hold no duration
DurationTotal == IF "time" \in DOMAIN Measurements THEN Measurements.time.totalSeconds ELSE 0

\* C21: the duration total of a note is built from its duration mentions
\* only: what is matched as the distance (5 miles, 5 mi), as the explicit pace
\* (5:13/km) or as the elevation (150m elevation) adds nothing to it.
C21_Independent == Measured => DurationTotal = SumOf(Elapsed(noteParts))

\* C22: the unit of a detected distance is km or mi, whichever unit word
\* (km, kilometers, mi, mile, miles) the text states it with.
C22_DistanceUnit ==
    Measured /\ "distance" \in DOMAIN Measurements =>
        Measurements.distance.unit \in {<<"k", "m">>, <<"m", "i">>}

\* the phrases that state a pace per kilometer, and per mile
PerKilometer == {<<"5", ":", "1", "3", "/", "k", "m">>, <<"5", ":", "1", "3", " ", "p", "e", "r", " ", "k", "i", "l", "o", "m", "e", "t", "e", "r">>}
PerMile == {<<"8", ":", "0", "0", "/", "m", "i", "l", "e">>}

\* the places of a note where a pace is stated
PaceStated == {k \in 1..Len(noteParts) : AllPhrases[noteParts[k]].text \in PerKilometer \cup PerMile}

\* C23: the unit of a detected pace is km when the pace is stated with a
\* kilometer word (km, kilometer, kilometers) and mi when it is stated with a
\* mile word (mi, mile, miles).
C23_PaceUnit ==
    Measured /\ "pace" \in DOMAIN Measurements /\ PaceStated # {} =>
        Measurements.pace.unit =
            IF AllPhrases[noteParts[Min(PaceStated)]].text \in PerKilometer THEN <<"k", "m">> ELSE <<"m", "i">>

\* the note of the user guide
GuideNote == <<"R", "a", "n", " ", "5", "k", "m", " ", "i", "n", " ", "2", "5", ":", "3", "0", ",", " ", "f", "e", "l", "t", " ", "g", "r", "e", "a", "t", ",", " ", "s", "u", "n", "n", "y", " ", "w", "e", "a", "t", "h", "e", "r">>

\* C24: a derived pace is the quotient q = duration.totalSeconds /
\* distance.value in whole minutes and seconds, minutes = floor(q / 60) and
\* seconds = floor(q mod 60) with 0 <= seconds < 60, in the unit of the
\* distance; the note of the user guide gives 5 km, 1530 s (00:25:30), a
\* derived pace of 5:06 per km, weather sunny and mood great.
C24_DerivedPace ==
    /\ Measured /\ "calculatedPace" \in DOMAIN Measurements =>
          LET total == Measurements.time.totalSeconds
              value == Measurements.distance.value
              pace == Measurements.calculatedPace
          IN /\ value.num > 0
             /\ pace.minutes >= 0 /\ pace.seconds >= 0 /\ pace.seconds < 60
             /\ (60 * pace.minutes + pace.seconds) * value.num <= total * value.den
             /\ total * value.den < (60 * pace.minutes + pace.seconds + 1) * value.num
             /\ pace.unit = Measurements.distance.unit
    /\ Measured /\ extracted[1].result.rawContent = GuideNote =>
          /\ Measurements.distance = [value |-> [num |-> 5, den |-> 1], unit |-> <<"k", "m">>]
          /\ Measurements.time.totalSeconds = 1530
          /\ Measurements.time.formatted = <<"0", "0", ":", "2", "5", ":", "3", "0">>
          /\ Measurements.calculatedPace.minutes = 5
          /\ Measurements.calculatedPace.seconds = 6
          /\ Measurements.calculatedPace.unit = <<"k", "m">>
          /\ Measurements.weather = <<<<"s", "u", "n", "n", "y">>>>
          /\ Measurements.mood = <<<<"g", "r", "e", "a", "t">>>>

\* C25: parsing fails with the empty-input failure, and gives no result in
\* part, when the text is absent or the empty string; for every other text
\* it gives a result whose rawContent is the text.
C25_EmptyInput ==
    extracted # <<>> =>
        IF "content" \notin DOMAIN noteParams \/ noteParams.content = <<>>
        THEN extracted[1] = [ok |-> FALSE, error |-> <<"No content provided to parse">>]
        ELSE /\ extracted[1].ok
             /\ extracted[1].result.rawContent = noteParams.content

\* the parser has been given the empty string
C25_Witness == extracted # <<>> /\ noteParams = [content |-> <<>>]

----------------------------------------------------------------------------
(* The aggregator on its own: activitySummaryTask is a function of its      *)
(* params, so it is applied once to each list that can be put together from *)
(* a table of activities, and to params without a list.                     *)

\* an activity as a caller writes it, and one with a pace and nothing else
Supplied(timestamp, km, seconds) ==
    [timestamp |-> timestamp,
     extractedData |-> [distance |-> [value |-> [num |-> km, den |-> 1], unit |-> <<"k", "m">>],
                        time |-> TimeOf(seconds)]]

Paced(timestamp, minutes, seconds, unit) ==
    [timestamp |-> timestamp,
     extractedData |->
        [pace |-> [minutes |-> minutes, seconds |-> seconds, unit |-> unit,
                   formatted |-> NumberToString(minutes) \o <<":">>
                                 \o PadStart2(NumberToString(seconds)) \o <<"/">> \o unit]]]

\* the three activities of the client example, of 2023-02-05T08:30Z,
\* 2023-02-07T09:15Z and 2023-02-10T07:45Z
ExampleActivities == <<Supplied(34, 5, 1530), Supplied(229, 8, 2445), Supplied(511, 10, 3020)>>

\* what runningNotesTask returns for five notes: a distance in km, three in
\* miles, and a pace stated per kilometer
ParsedNotes ==
    <<<<"5", "k", "m", " ", "2", "5", ":", "3", "0">>, <<"5", " ", "m", "i", "l", "e", "s", " ", "2", "5", ":", "3", "0">>, <<"5", " ", "m", "i", " ", "2", "5", ":", "3", "0">>, <<"1", " ", "m", "i", "l", "e", " ", "1", "0", " ", "m", "i", "n">>, <<"5", ":", "1", "3", " ", "p", "e", "r", " ", "k", "i", "l", "o", "m", "e", "t", "e", "r">>>>

ParsedActivities ==
    [k \in DOMAIN ParsedNotes |-> runningNotesTask([content |-> ParsedNotes[k]]).result]

\* a distance of 0 and nothing else, distances in mile and in miles, a pace
\* per km, a pace per mile, and an activity without data
OtherActivities ==
    <<[extractedData |-> [distance |-> [value |-> [num |-> 0, den |-> 1], unit |-> <<"k", "m">>]]],
      [extractedData |-> [distance |-> [value |-> [num |-> 1, den |-> 1], unit |-> <<"m", "i", "l", "e">>]]],
      [extractedData |-> [distance |-> [value |-> [num |-> 62, den |-> 10], unit |-> <<"m", "i", "l", "e", "s">>],
                          time |-> TimeOf(3020)]],
      Paced(130, 5, 0, <<"k", "m">>),
      Paced(322, 8, 0, <<"m", "i">>),
      [timestamp |-> 415]>>

\* paces at timestamps of their own: 5:10 per km, twice 5:00 per km, the
\* latter restated per mile (8:03 per mile is 300.1 s per km), and 0:00; and
\* a distance of 4 mi, which is 6.4 km
TrendActivities ==
    <<Paced(34, 5, 10, <<"k", "m">>),
      Paced(226, 5, 0, <<"k", "m">>),
      Paced(418, 5, 0, <<"k", "m">>),
      Paced(418, 8, 3, <<"m", "i">>),
      Paced(274, 0, 0, <<"k", "m">>),
      [extractedData |-> [distance |-> [value |-> [num |-> 4, den |-> 1], unit |-> <<"m", "i">>]]]>>

ActivityTable == ExampleActivities \o ParsedActivities \o OtherActivities \o TrendActivities

\* the lists of at most MaxActivities activities
ActivityLists ==
    UNION {[1..n -> {table[k] : k \in DOMAIN table}] :
              n \in 0..MaxActivities, table \in {ActivityTable}}

\* params as a caller may send them: with a list, with a value that is not
\* an array, or without activities
SummaryParams ==
    {[activities |-> [array |-> list]] : list \in ActivityLists}
    \cup {[activities |-> [typeof |-> "string"]], [activities |-> [typeof |-> "object"]],
          NoParams}

InitSummary ==
    /\ Constructed
    /\ noteParts = <<>>
    /\ noteParams = NoParams
    /\ extracted = <<>>
    /\ summaryParams \in SummaryParams
    /\ summarized = <<>>

\* activitySummaryTask(params)
Summarize ==
    /\ summarized = <<>>
    /\ \E r \in {activitySummaryTask(summaryParams)} : summarized' = <<r>>
    /\ UNCHANGED <<stores, pending, handling, published, delivered, logs,
                   parserVars, startVars, summaryParams, requestVars>>

NextSummary == Summarize

SpecSummary == InitSummary /\ [][NextSummary]_vars

\* the list the aggregator was given, when it was given one
ListGiven == "activities" \in DOMAIN summaryParams /\ IsArray(summaryParams.activities)
Activities == summaryParams.activities.array

\* C26: the aggregator fails with the empty-list failure when activities is
\* absent, is not a list or is the empty list; for every other list it gives
\* a summary whose totalActivities is the length of the list.
C26_EmptyList ==
    summarized # <<>> =>
        IF ~ListGiven \/ Activities = <<>>
        THEN summarized[1] = [ok |-> FALSE, error |-> <<"No activities provided for summary">>]
        ELSE /\ summarized[1].ok
             /\ summarized[1].result.totalActivities = Len(Activities)

\* the aggregator has been given a value that is not a list
C26_Witness == summarized # <<>> /\ summaryParams = [activities |-> [typeof |-> "string"]]

\* C27: the summary of the three activities of the client example (5 km,
\* 8 km and 10 km in 1530 s, 2445 s and 3020 s, at ascending timestamps, none
\* with a pace) has totals.distance 23 km, counts the 5 km and the 8 km
\* activity as medium and the 10 km activity as long, and has the improving
\* trend flag true.
C27_Example ==
    summarized # <<>> /\ ListGiven /\ Activities = ExampleActivities =>
        /\ summarized[1].ok
        /\ summarized[1].result.totals.distance = 23 * 1000000
        /\ summarized[1].result.activityTypes = [medium |-> 2, long |-> 1]
        /\ summarized[1].result.trends.improvement

\* the summary, once the aggregator has returned one
Summarized == summarized # <<>> /\ summarized[1].ok
Summary == summarized[1].result

\* the activities of the list that carry a pace, by their place
WithPace == {i \in 1..Len(Activities) : PaceDatum(Activities[i]) # <<>>}

\* what the parser returns for the notes that state a distance in miles
ParsedFromMiles == {ParsedActivities[k] : k \in {2, 3, 4}}

\* the pace of the activity at place i is a pace per mile
PerMilePace(i) ==
    \/ PaceDatum(Activities[i])[1].unit = <<"m", "i">>
    \/ Activities[i] \in ParsedFromMiles

\* the seconds per km the pace at place i stands for, in millionths
NormalizedPace(i) ==
    LET pace == PaceDatum(Activities[i])[1]
    IN (pace.minutes * 60 + pace.seconds) * (IF PerMilePace(i) THEN 621371 ELSE 1000000)

RECURSIVE PaceTotal(_)
PaceTotal(places) ==
    IF places = {} THEN 0
    ELSE LET i == CHOOSE j \in places : TRUE
         IN NormalizedPace(i) + PaceTotal(places \ {i})

\* C28: a pace per mile, the derived pace of every measurement set the parser
\* produces from a distance in mi, mile or miles among them, counts with its
\* seconds times 0.621371 in the pace total, the average pace and the
\* comparison for the best pace; a pace per km counts as it is.
C28_PaceNormalized ==
    Summarized /\ WithPace # {} =>
        /\ Summary.averages.pace = [num |-> PaceTotal(WithPace), den |-> Cardinality(WithPace)]
        /\ Summary.best.pace # <<>>
        /\ \A i \in WithPace :
              NormalizedPace(Summary.best.pace[1].activityIndex + 1) <= NormalizedPace(i)

\* a list with a derived pace per mile from the parser and a slower pace
\* per km whose seconds are fewer has been summarized
C28_Witness ==
    /\ Summarized
    /\ \E i, j \in WithPace :
          /\ Activities[i] \in ParsedFromMiles
          /\ PaceDatum(Activities[j])[1].unit = <<"k", "m">>
          /\ PaceDatum(Activities[j])[1].minutes * 60 + PaceDatum(Activities[j])[1].seconds
                < PaceDatum(Activities[i])[1].minutes * 60 + PaceDatum(Activities[i])[1].seconds
          /\ NormalizedPace(i) < NormalizedPace(j)
          /\ Summary.best.pace[1].activityIndex + 1 = i

\* the activities of the list that carry a distance, and a duration
WithDistance == {i \in 1..Len(Activities) : Datum(Activities[i], "distance") # <<>>}
WithDuration == {i \in 1..Len(Activities) : Datum(Activities[i], "time") # <<>>}

\* the km the distance at place i stands for, in millionths
NormalizedDistance(i) ==
    LET distance == Activities[i].extractedData.distance
    IN (distance.value.num
          * (IF distance.unit \in {<<"m", "i">>, <<"m", "i", "l", "e">>, <<"m", "i", "l", "e", "s">>} THEN 1609340 ELSE 1000000))
       \div distance.value.den

RECURSIVE DistanceTotal(_)
DistanceTotal(places) ==
    IF places = {} THEN 0
    ELSE LET i == CHOOSE j \in places : TRUE
         IN NormalizedDistance(i) + DistanceTotal(places \ {i})

RECURSIVE SecondsTotal(_)
SecondsTotal(places) ==
    IF places = {} THEN 0
    ELSE LET i == CHOOSE j \in places : TRUE
         IN Activities[i].extractedData.time.totalSeconds + SecondsTotal(places \ {i})

\* C29: totals.distance is the sum of the distances of the activities that
\* carry one, a distance in mi, mile or miles times 1.60934 and a distance in
\* km as it is; totals.duration is the sum of totalSeconds of the activities
\* that carry a duration.
C29_Totals ==
    Summarized =>
        /\ Summary.totals.distance = DistanceTotal(WithDistance)
        /\ Summary.totals.duration = SecondsTotal(WithDuration)

\* a list with a distance in miles, a distance in km and an activity that
\* carries neither distance nor duration has been summarized
C29_Witness ==
    /\ Summarized
    /\ \E i, j \in WithDistance :
          /\ Activities[i].extractedData.distance.unit = <<"m", "i", "l", "e", "s">>
          /\ Activities[j].extractedData.distance.unit = <<"k", "m">>
          /\ Activities[j].extractedData.distance.value.num > 0
    /\ \E k \in 1..Len(Activities) : k \notin WithDistance \cup WithDuration
    /\ Summary.totals.duration > 0

\* the first place of those given where the value is the least, and the
\* greatest
FastestPace == Min({i \in WithPace : \A j \in WithPace : NormalizedPace(i) <= NormalizedPace(j)})
LongestDistance ==
    Min({i \in WithDistance : \A j \in WithDistance : NormalizedDistance(i) >= NormalizedDistance(j)})
LongestDuration ==
    Min({i \in WithDuration :
            \A j \in WithDuration : Activities[i].extractedData.time.totalSeconds
                                      >= Activities[j].extractedData.time.totalSeconds})

\* C30: best.pace, best.distance and best.duration are null when no activity
\* of the list carries the field; when one does they are not null, and their
\* activityIndex is the position of the activity with the least normalized
\* pace, the greatest normalized distance and the greatest duration, the
\* first such position on ties.
C30_Bests ==
    Summarized =>
        /\ IF WithPace = {} THEN Summary.best.pace = <<>>
           ELSE /\ Summary.best.pace # <<>>
                /\ Summary.best.pace[1].activityIndex = FastestPace - 1
        /\ IF WithDistance = {} THEN Summary.best.distance = <<>>
           ELSE /\ Summary.best.distance # <<>>
                /\ Summary.best.distance[1].activityIndex = LongestDistance - 1
        /\ IF WithDuration = {} THEN Summary.best.duration = <<>>
           ELSE /\ Summary.best.duration # <<>>
                /\ Summary.best.duration[1].activityIndex = LongestDuration - 1

\* the bucket the distance at place i belongs to, by its km
BucketOf(i) ==
    IF NormalizedDistance(i) < 5 * 1000000 THEN "short"
    ELSE IF NormalizedDistance(i) < 10 * 1000000 THEN "medium"
    ELSE "long"

\* the count the histogram gives for a bucket, 0 when it has no entry for it
BucketCount(bucket) ==
    IF bucket \in DOMAIN Summary.activityTypes THEN Summary.activityTypes[bucket] ELSE 0

\* C31: every activity that carries a distance is counted in exactly one
\* bucket of activityTypes, chosen by its distance in km (short below 5,
\* medium from 5 and below 10, long from 10); activities without a distance
\* are counted in none, and the counts add up to the number of activities
\* that carry a distance.
C31_Histogram ==
    Summarized =>
        /\ DOMAIN Summary.activityTypes \subseteq {"short", "medium", "long"}
        /\ \A bucket \in {"short", "medium", "long"} :
              BucketCount(bucket) = Cardinality({i \in WithDistance : BucketOf(i) = bucket})
        /\ BucketCount("short") + BucketCount("medium") + BucketCount("long")
              = Cardinality(WithDistance)

\* a list with a distance of 4 mi, a distance of exactly 10 km and an activity
\* without a distance has been summarized: one medium, one long
C31_Witness ==
    /\ Summarized
    /\ \E i, j \in WithDistance :
          /\ Activities[i].extractedData.distance
                = [value |-> [num |-> 4, den |-> 1], unit |-> <<"m", "i">>]
          /\ NormalizedDistance(j) = 10 * 1000000
    /\ \E k \in 1..Len(Activities) : k \notin WithDistance
    /\ Summary.activityTypes = [medium |-> 1, long |-> 1]

\* the places of the list with a pace and a timestamp
WithBoth == {i \in WithPace : TimestampOf(Activities[i]) # <<>>}

\* C32: averages.distance and averages.duration are the totals divided by the
\* number of all activities of the list, those without the field included;
\* averages.pace is the pace total divided by the number of activities that
\* carry a pace, and 0 when none does.  Every non-empty list gets a summary,
\* no average is a quotient by 0 and both trend flags are truth values, also
\* when no activity carries a pace, when all timestamps are the same and when
\* the mean pace is 0.
C32_Averages ==
    /\ summarized # <<>> /\ ListGiven /\ Activities # <<>> => summarized[1].ok
    /\ Summarized =>
          /\ Summary.averages.distance
                = [num |-> DistanceTotal(WithDistance), den |-> Len(Activities)]
          /\ Summary.averages.duration
                = [num |-> SecondsTotal(WithDuration), den |-> Len(Activities)]
          /\ Summary.averages.pace
                = IF WithPace = {} THEN [num |-> 0, den |-> 1]
                  ELSE [num |-> PaceTotal(WithPace), den |-> Cardinality(WithPace)]
          /\ WithPace = {} => Summary.averages.paceFormatted = <<"0", ":", "0", "0", "/", "k", "m">>
          /\ \A field \in {"distance", "duration", "pace"} : Summary.averages[field].den > 0
          /\ Summary.trends.improvement \in BOOLEAN
          /\ Summary.trends.consistency \in BOOLEAN

\* three activities of one timestamp, each with the pace 0:00 and none with
\* a distance, have been summarized: the variance of the timestamps and the
\* mean pace are both 0
C32_Witness ==
    /\ Summarized
    /\ Len(Activities) = 3
    /\ WithBoth = {1, 2, 3}
    /\ WithDistance = {}
    /\ \A i \in WithBoth :
          /\ TimestampOf(Activities[i]) = TimestampOf(Activities[1])
          /\ NormalizedPace(i) = 0
    /\ Summary.averages.distance = [num |-> 0, den |-> 3]
    /\ Summary.averages.pace = [num |-> 0, den |-> 3]
    /\ Summary.trends = [improvement |-> FALSE, consistency |-> FALSE]

\* C33: the summary of a list of one activity has averages equal to the
\* values of that activity: averages.distance its distance in km,
\* averages.duration its totalSeconds and averages.pace its pace in seconds
\* per km (each 0 when the activity does not carry the field), and both
\* trend flags are false.
C33_SingleActivity ==
    Summarized /\ Len(Activities) = 1 =>
        /\ Summary.averages.distance
              = [num |-> IF 1 \in WithDistance THEN NormalizedDistance(1) ELSE 0, den |-> 1]
        /\ Summary.averages.duration
              = [num |-> IF 1 \in WithDuration
                         THEN Activities[1].extractedData.time.totalSeconds ELSE 0,
                 den |-> 1]
        /\ Summary.averages.pace
              = [num |-> IF 1 \in WithPace THEN NormalizedPace(1) ELSE 0, den |-> 1]
        /\ Summary.trends = [improvement |-> FALSE, consistency |-> FALSE]

\* one activity with a distance in mi, a duration and a pace per mile, as the
\* parser returns it, has been summarized
C33_Witness ==
    /\ Summarized
    /\ Len(Activities) = 1
    /\ Activities[1] \in ParsedFromMiles
    /\ WithDistance = {1} /\ WithDuration = {1} /\ WithPace = {1}
    /\ Summary.averages.distance.num > Activities[1].extractedData.distance.value.num * 1000000
    /\ Summary.averages.duration.num > 0
    /\ Summary.averages.pace.num
          < (PaceDatum(Activities[1])[1].minutes * 60 + PaceDatum(Activities[1])[1].seconds) * 1000000

\* the seconds of the pace at place i, as the activity states them
PaceSeconds(i) == PaceDatum(Activities[i])[1].minutes * 60 + PaceDatum(Activities[i])[1].seconds

\* C34: the trend flags are computed only for a list of at least 3
\* activities of which at least 3 have both a timestamp and a pace (pace or
\* calculatedPace); for every other list, one with 3 timestamps but fewer
\* than 3 activities with both included, improvement and consistency are both
\* false.
C34_TrendGate ==
    Summarized /\ (Len(Activities) < 3 \/ Cardinality(WithBoth) < 3) =>
        Summary.trends = [improvement |-> FALSE, consistency |-> FALSE]

\* three activities with timestamps, of which two carry a pace, the later
\* one the faster by less than a tenth, have been summarized
C34_Witness ==
    /\ Summarized
    /\ Len(Activities) = 3
    /\ \A i \in 1..3 : TimestampOf(Activities[i]) # <<>>
    /\ Cardinality(WithBoth) = 2
    /\ \E i, j \in WithBoth :
          /\ TimestampOf(Activities[i])[1] < TimestampOf(Activities[j])[1]
          /\ PaceSeconds(i) > PaceSeconds(j)
          /\ PaceSeconds(i) * 10 < PaceSeconds(j) * 11
    /\ Summary.trends = [improvement |-> FALSE, consistency |-> FALSE]

\* the pairs of places with a pace and a timestamp
PointPairs == {pair \in WithBoth \X WithBoth : pair[1] < pair[2]}

\* over the pairs: the sum of the products of the differences of timestamp
\* and pace, which has the sign of the numerator of the least-squares slope,
\* and the sums of the squared differences of timestamp and of pace, which
\* are the variances times the square of the number of points
RECURSIVE CoMoment(_)
CoMoment(pairs) ==
    IF pairs = {} THEN 0
    ELSE LET pair == CHOOSE q \in pairs : TRUE
         IN (TimestampOf(Activities[pair[1]])[1] - TimestampOf(Activities[pair[2]])[1])
               * (PaceSeconds(pair[1]) - PaceSeconds(pair[2]))
            + CoMoment(pairs \ {pair})

RECURSIVE TimeSpread(_)
TimeSpread(pairs) ==
    IF pairs = {} THEN 0
    ELSE LET pair == CHOOSE q \in pairs : TRUE
         IN (TimestampOf(Activities[pair[1]])[1] - TimestampOf(Activities[pair[2]])[1])
               * (TimestampOf(Activities[pair[1]])[1] - TimestampOf(Activities[pair[2]])[1])
            + TimeSpread(pairs \ {pair})

RECURSIVE PaceSpread(_)
PaceSpread(pairs) ==
    IF pairs = {} THEN 0
    ELSE LET pair == CHOOSE q \in pairs : TRUE
         IN (PaceSeconds(pair[1]) - PaceSeconds(pair[2]))
               * (PaceSeconds(pair[1]) - PaceSeconds(pair[2]))
            + PaceSpread(pairs \ {pair})

RECURSIVE PaceSum(_)
PaceSum(places) ==
    IF places = {} THEN 0
    ELSE LET i == CHOOSE j \in places : TRUE
         IN PaceSeconds(i) + PaceSum(places \ {i})

\* C35: when the trend is computed, improvement is true exactly when the
\* least-squares slope of the pace seconds against the timestamps is below
\* 0, whatever the order of the activities in the list, and consistency is
\* true exactly when the population coefficient of variation of the pace
\* seconds is below 0.10; three paces of 300 s at distinct timestamps give
\* consistency true and improvement false.
C35_TrendProcedure ==
    Summarized /\ Len(Activities) >= 3 /\ Cardinality(WithBoth) >= 3 =>
        /\ Summary.trends.improvement
              <=> (TimeSpread(PointPairs) > 0 /\ CoMoment(PointPairs) < 0)
        /\ Summary.trends.consistency
              <=> (/\ PaceSum(WithBoth) > 0
                   /\ 100 * PaceSpread(PointPairs) < PaceSum(WithBoth) * PaceSum(WithBoth))
        /\ (/\ \A i \in WithBoth : PaceSeconds(i) = 300
            /\ \A pair \in PointPairs :
                  TimestampOf(Activities[pair[1]]) # TimestampOf(Activities[pair[2]]))
              => Summary.trends = [improvement |-> FALSE, consistency |-> TRUE]

\* three activities with the pace 5:00 at distinct timestamps, the latest
\* first in the list, have been summarized
C35_Witness ==
    /\ Summarized
    /\ WithBoth = {1, 2, 3}
    /\ \A i \in WithBoth : PaceSeconds(i) = 300
    /\ TimestampOf(Activities[2])[1] < TimestampOf(Activities[3])[1]
    /\ TimestampOf(Activities[3])[1] < TimestampOf(Activities[1])[1]
    /\ Summary.trends = [improvement |-> FALSE, consistency |-> TRUE]

\* a pace per mile restated per km: its seconds times 0.621371, to the second
PerKm(pace) ==
    LET seconds == ((pace.minutes * 60 + pace.seconds) * 621371 + 500000) \div 1000000
    IN [minutes |-> seconds \div 60, seconds |-> seconds % 60, unit |-> <<"k", "m">>,
        formatted |-> NumberToString(seconds \div 60) \o <<":">>
                      \o PadStart2(NumberToString(seconds % 60)) \o <<"/", "k", "m">>]

\* the activity with its pace, when that is a pace per mile, restated per km
Restated(activity) ==
    IF PaceDatum(activity) = <<>> \/ PaceDatum(activity)[1].unit # <<"m", "i">> THEN activity
    ELSE IF Datum(activity, "pace") # <<>>
         THEN [activity EXCEPT !.extractedData.pace = PerKm(@)]
         ELSE [activity EXCEPT !.extractedData.calculatedPace = PerKm(@)]

RestatedActivities == [i \in 1..Len(Activities) |-> Restated(Activities[i])]

\* C40: the trend is classified on the paces in seconds per km that the
\* average and the best pace use, so the trend flags of a list are those of
\* the list in which every pace per mile is restated per km with the
\* equivalent value.
C40_TrendNormalized ==
    Summarized /\ Cardinality(WithBoth) >= 3 =>
        Summary.trends
           = [improvement |-> analyzePaceTrend(RestatedActivities).improving,
              consistency |-> analyzePaceTrend(RestatedActivities).consistent]

----------------------------------------------------------------------------
(* C36: the default of until                                               *)

\* the time at which the pending query is answered.  created_at is written
\* by the author of an event, so a stored record may be dated later.
Now == QueryTime

\* C36: a running-feed, workout-templates or workout-records query without
\* until has the current time as its upper bound: it returns no record whose
\* created_at lies after the time of the query.
C36_UntilDefault ==
    AskedQuery /\ "until" \notin DOMAIN pending[1].params =>
        \A r \in Elements(Answer) : r.created_at <= Now

----------------------------------------------------------------------------
(* C37: workout messages and the feed                                      *)

WorkoutIngestion ==
    /\ \A event \in WorkoutEvents :
          /\ /\ Delivers(event) /\ WellFormed(event)
             /\ ~Resident(KindStore(event), event.id)
             /\ ~Resident(runningNotesFeed, event.id)
             => /\ KindStoreNext(event)[1].id = event.id
                /\ runningNotesFeed'[1].id = event.id
                /\ runningNotesFeed'[1].eventType # Null
          /\ Delivers(event) /\ Resident(KindStore(event), event.id)
             => UNCHANGED stores
    /\ \A event \in NoteEvents :
          Delivers(event) /\ WellFormed(event) /\ ~Resident(runningNotesFeed, event.id)
             => /\ runningNotesFeed'[1].id = event.id
                /\ runningNotesFeed'[1].eventType = Null

\* C37: a workout message (kind 33401, 33402 or 1301) whose id is resident
\* neither in the collection of its kind nor in the feed goes to the head of
\* both, its feed entry with an eventType that is not null, while the entry
\* of a plain note has eventType null; a workout message whose id is still
\* resident in the collection of its kind changes no collection when it is
\* delivered again, also when its entry has been cut from the feed.
C37_WorkoutFeed == [][WorkoutIngestion]_vars

\* record 1 is still filed, its feed entry has been cut, and it has just
\* been delivered again: the feed took it in once and does not hold it
C37_Witness ==
    /\ delivered = <<1>>
    /\ Resident(workoutRecords, 1)
    /\ ~Resident(runningNotesFeed, 1)
    /\ Len(SelectSeq(feedLog, LAMBDA id : id = 1)) = 1
    /\ Len(SelectSeq(recordLog, LAMBDA id : id = 1)) = 1

----------------------------------------------------------------------------
(* C38: a failing ingestion                                                *)

FailedIngestionChangesNothing ==
    \A event \in NoteEvents \cup WorkoutEvents :
       Delivers(event) /\ ~WellFormed(event) => UNCHANGED stores

\* C38: an ingestion that raises inside a handler, as for a message without
\* its tag list or without its author key, raises nothing into the callback
\* of the subscription and leaves every collection as it was before the
\* delivery: no collection takes a record from a delivery that failed in
\* another collection.
C38_FailureAtomic == [][FailedIngestionChangesNothing]_vars

----------------------------------------------------------------------------
(* Task requests delivered by several relays.  handleTaskRequest is an     *)
(* async function called once for every event of every subscription, with  *)
(* the relay of the subscription: a call runs up to an await, and other     *)
(* calls may start and go on before it is resumed.  The collections stay    *)
(* as constructed here.                                                     *)

\* a bag is a function from its members to their counts
AddTo(bag, x) ==
    IF x \in DOMAIN bag THEN [bag EXCEPT ![x] = @ + 1] ELSE (x :> 1) @@ bag

RemoveFrom(bag, x) ==
    IF bag[x] > 1 THEN [bag EXCEPT ![x] = @ - 1]
    ELSE [y \in DOMAIN bag \ {x} |-> bag[y]]

RECURSIVE CountOf(_, _)
CountOf(bag, members) ==
    IF members = {} THEN 0
    ELSE LET x == CHOOSE y \in members : TRUE
         IN bag[x] + CountOf(bag, members \ {x})

\* the result event handed to every relay
PublishTo_AllRelays(box, relay, resultEvent) ==
    [r \in Relays |-> AddTo(box[r], resultEvent)]

\* line 532: relay.publish(resultEvent), on the relay of the call
PublishTo(box, relay, resultEvent) ==
    [box EXCEPT ![relay] = AddTo(@, resultEvent)]

\* lines 484-489: the request names a task of the list, so that its handler
\* is called and awaited
HandlerFound(event) ==
    /\ "json" \in DOMAIN event.content
    /\ "task" \in DOMAIN event.content.json
    /\ event.content.json.task \in TaskNames

\* subscription.on('event', event => this.handleTaskRequest(event, relay)):
\* the call up to its first await.  That is `await taskHandler(params)` when
\* the task has a handler; otherwise publishTaskResult is called at once
\* (line 492, or line 509 from the catch block) and awaits relay.publish.
OnTaskRequestFrom(event, relay) ==
    /\ CountOf(received, DOMAIN received) < MaxDeliveries
    /\ received' = AddTo(received, <<event.id, relay>>)
    /\ \E out \in {handleTaskRequest(State, event)} :
          IF HandlerFound(event)
          THEN /\ calls' = AddTo(calls, [event |-> event, relay |-> relay,
                                         reply |-> out.reply, at |-> "taskHandler"])
               /\ UNCHANGED outbox
          ELSE /\ calls' = AddTo(calls, [event |-> event, relay |-> relay,
                                         reply |-> out.reply, at |-> "publish"])
               /\ outbox' = PublishTo(outbox, relay, publishTaskResult(event, out.reply))
    /\ UNCHANGED <<stores, pending, handling, published, logs, delivered,
                   parserVars, summaryVars, startVars>>

\* a call is resumed after `await taskHandler(params)`: publishTaskResult is
\* called with the result (line 503) or, from the catch block, with the
\* error (line 509), and awaits relay.publish
HandlerSettled(call) ==
    /\ call \in DOMAIN calls
    /\ call.at = "taskHandler"
    /\ calls' = AddTo(RemoveFrom(calls, call), [call EXCEPT !.at = "publish"])
    /\ outbox' = PublishTo(outbox, call.relay, publishTaskResult(call.event, call.reply))
    /\ UNCHANGED <<stores, pending, handling, published, logs, delivered,
                   parserVars, summaryVars, startVars, received>>

\* a call is resumed after `await relay.publish(resultEvent)`:
\* publishTaskResult and handleTaskRequest return
PublishSettled(call) ==
    /\ call \in DOMAIN calls
    /\ call.at = "publish"
    /\ calls' = RemoveFrom(calls, call)
    /\ UNCHANGED <<stores, pending, handling, published, logs, delivered,
                   parserVars, summaryVars, startVars, outbox, received>>

NextRequests ==
    \/ \E event \in TaskRequests, relay \in Relays : OnTaskRequestFrom(event, relay)
    \/ \E call \in DOMAIN calls : HandlerSettled(call)
    \/ \E call \in DOMAIN calls : PublishSettled(call)

SpecRequests == Init /\ [][NextRequests]_vars

\* how often the relay has delivered the request, how many result events
\* tagged with the id of the request it was handed, and how many calls for
\* this request from this relay have not yet come to publishTaskResult
Deliveries(event, relay) ==
    IF <<event.id, relay>> \in DOMAIN received THEN received[<<event.id, relay>>] ELSE 0

ResultsFor(event, relay) ==
    CountOf(outbox[relay], {m \in DOMAIN outbox[relay] : m.tags[1] = <<"e", event.id>>})

AwaitingHandler(event, relay) ==
    CountOf(calls, {call \in DOMAIN calls :
                       call.event = event /\ call.relay = relay /\ call.at = "taskHandler"})

\* C39: task requests are not deduplicated.  Every delivery of a task
\* request, the same request delivered by several relays included, is
\* handled on its own and has exactly one result event published for it, to
\* the relay that delivered it and to no other; with several requests in
\* hand at once, every result event carries in its e tag the id of the
\* request whose handler produced its content.
C39_PerDelivery ==
    /\ \A event \in TaskRequests, relay \in Relays :
          ResultsFor(event, relay) + AwaitingHandler(event, relay) = Deliveries(event, relay)
    /\ \A relay \in Relays : \A m \in DOMAIN outbox[relay] :
          \E event \in TaskRequests :
             m = publishTaskResult(event, handleTaskRequest(State, event).reply)

\* request 24 has been delivered by relays 1 and 2 and each has been handed
\* one result for it, while the call for request 23, delivered by relay 1 as
\* well, still awaits its handler
C39_Witness ==
    \E event, other \in TaskRequests :
       /\ event.id = 24 /\ other.id = 23
       /\ Deliveries(event, 1) = 1 /\ Deliveries(event, 2) = 1
       /\ ResultsFor(event, 1) = 1 /\ ResultsFor(event, 2) = 1
       /\ AwaitingHandler(other, 1) = 1
       /\ ResultsFor(other, 1) = 0

====
